---- MODULE Spec2Model ----
(***************************************************************************)
(* BlurShield content script (class BlurAnything) together with the        *)
(* FreemiumService it consults and the background worker's blur store.     *)
(*                                                                         *)
(* The program state is kept in VARIABLES.  Every method of the class is   *)
(* an operator from a state record to a state record, written statement by *)
(* statement after the TypeScript; an action applies one event handler to  *)
(* the current state.  Handlers run to completion, except in SpecAsync,    *)
(* where an async handler stops at its awaits and is resumed by a later    *)
(* step.                                                                   *)
(***************************************************************************)
EXTENDS Integers, Sequences, FiniteSets, TLC

VARIABLES
    isEnabled,            \* BlurAnything.isEnabled
    isBlurMode,           \* BlurAnything.isBlurMode
    isDrawingMode,        \* BlurAnything.isDrawingMode
    isTextSelectionMode,  \* BlurAnything.isTextSelectionMode
    isEraserMode,         \* BlurAnything.isEraserMode
    blursHidden,          \* BlurAnything.blursHidden
    blurredElements,      \* BlurAnything.blurredElements (the Mark Store)
    startCoords,          \* BlurAnything.startCoords: <<>> is null, else <<x, y>>
    drawingOverlay,       \* BlurAnything.drawingOverlay: <<>> is null, else its style box <<left, top, width, height>>
    previewsInDocument,   \* number of #blur-anything-drawing-overlay nodes attached to document.body
    hoverShown,           \* hoverIndicator.style.display = "block"
    toolbarVisible,       \* floatingToolbar.style.display = "flex"
    cursor,               \* document.body.style.cursor
    bodyClasses,          \* blur-anything-* classes on document.body
    textListeners,        \* document's mouseup / touchend listeners bound to handleTextSelection
    blurredNodes,         \* page nodes carrying class blur-anything-blurred
    areaEls,              \* .blur-anything-area overlays in document order, each <<x, y, width, height>>
    textSpans,            \* span.blur-anything-text-blur wrappers: records [id, text]
    localData,            \* localStorage["blur-anything-data"]: <<>> is absent, else <<[url, blurData]>>
    extStore,             \* background storage: blurredElements, a map from URL to marks
    firebase,             \* Firestore documents of the signed-in user: a map from URL to blurs
    currentTier,          \* FreemiumService.currentTier
    blurCount,            \* FreemiumService.dailyUsage.blurCount
    currentUser,          \* authService.currentUser !== null
    href,                 \* window.location.href
    tree,                 \* the elements of the document, in document order
    instantCss,           \* selectors with a filter rule in style#blur-anything-instant-css
    initPc,               \* how far init() has run
    suspended,            \* async handlers stopped at an await: their frames, oldest first
    atStart,              \* what the session found when it was constructed (history)
    lastOp                \* the handler that ran last, its input, whether it changed the state (history)

vars == <<isEnabled, isBlurMode, isDrawingMode, isTextSelectionMode, isEraserMode,
          blursHidden, blurredElements, startCoords, drawingOverlay,
          previewsInDocument, hoverShown, toolbarVisible, cursor, bodyClasses,
          textListeners, blurredNodes, areaEls, textSpans,
          localData, extStore, firebase, currentTier, blurCount, currentUser,
          href, tree, instantCss, initPc, suspended, atStart, lastOp>>

(***************************************************************************)
(* Bounds of the model and constants of the program.                       *)
(***************************************************************************)
MaxMarks == 2         \* marks held by the Mark Store
MaxListeners == 2     \* handleTextSelection listener pairs attached to the document
MaxPreviews == 1      \* draw preview overlays attached to the document
UsedToday == 8        \* blurs already counted today when the session starts
MaxCounted == 11      \* highest daily blur count a session is followed to

MinRegionSize == 10       \* handleMouseUp: width < 10 || height < 10
MaxBlursPerDayFree == 10  \* getFeatureLimits, free tier
MaxRectangleFree == 200   \* getFeatureLimits, free tier maxRectangleSize
PreviewBorderPx == 2      \* createDrawingOverlay: border: 2px dashed

PageNodes == {1, 2}                  \* elements of the page that can be clicked
Urls == {"https://site.test/a", "https://site.test/b"}  \* pages of one origin
PageTexts == {"alpha", "beta"}       \* text runs of the page that can be selected
FlowEnd == <<0, 250>>                \* static position of an absolute box appended to body
Modes == {"blur", "draw", "text", "eraser", "none"}

DrawPoints == {<<0, 0>>, <<10, 10>>, <<9, 10>>, <<10, 9>>, <<250, 20>>}  \* pointer positions (pageX, pageY)
ModePoints == {<<0, 0>>, <<9, 10>>}
MarkPoints == {<<0, 0>>, <<10, 10>>}
AnchorPoints == {<<0, 0>>}           \* where a region drag is started

Abs(n) == IF n < 0 THEN -n ELSE n
Min(a, b) == IF a < b THEN a ELSE b

(***************************************************************************)
(* The state as one record, so that methods compose as the code calls them.*)
(***************************************************************************)
State ==
    [isEnabled |-> isEnabled, isBlurMode |-> isBlurMode,
     isDrawingMode |-> isDrawingMode,
     isTextSelectionMode |-> isTextSelectionMode,
     isEraserMode |-> isEraserMode, blursHidden |-> blursHidden,
     blurredElements |-> blurredElements, startCoords |-> startCoords,
     drawingOverlay |-> drawingOverlay,
     previewsInDocument |-> previewsInDocument, hoverShown |-> hoverShown,
     toolbarVisible |-> toolbarVisible, cursor |-> cursor,
     bodyClasses |-> bodyClasses, textListeners |-> textListeners,
     blurredNodes |-> blurredNodes, areaEls |-> areaEls,
     textSpans |-> textSpans,
     localData |-> localData, extStore |-> extStore, firebase |-> firebase,
     currentTier |-> currentTier, blurCount |-> blurCount,
     currentUser |-> currentUser, href |-> href, tree |-> tree,
     instantCss |-> instantCss, initPc |-> initPc, suspended |-> suspended]

Commit(s, name, arg) ==
    /\ isEnabled' = s.isEnabled
    /\ isBlurMode' = s.isBlurMode
    /\ isDrawingMode' = s.isDrawingMode
    /\ isTextSelectionMode' = s.isTextSelectionMode
    /\ isEraserMode' = s.isEraserMode
    /\ blursHidden' = s.blursHidden
    /\ blurredElements' = s.blurredElements
    /\ startCoords' = s.startCoords
    /\ drawingOverlay' = s.drawingOverlay
    /\ previewsInDocument' = s.previewsInDocument
    /\ hoverShown' = s.hoverShown
    /\ toolbarVisible' = s.toolbarVisible
    /\ cursor' = s.cursor
    /\ bodyClasses' = s.bodyClasses
    /\ textListeners' = s.textListeners
    /\ blurredNodes' = s.blurredNodes
    /\ areaEls' = s.areaEls
    /\ textSpans' = s.textSpans
    /\ localData' = s.localData
    /\ extStore' = s.extStore
    /\ firebase' = s.firebase
    /\ currentTier' = s.currentTier
    /\ blurCount' = s.blurCount
    /\ currentUser' = s.currentUser
    /\ href' = s.href
    /\ tree' = s.tree
    /\ instantCss' = s.instantCss
    /\ initPc' = s.initPc
    /\ suspended' = s.suspended
    /\ atStart' = atStart
    /\ lastOp' = [name |-> name, arg |-> arg, changed |-> s # State]

(***************************************************************************)
(* Small methods of BlurAnything.                                          *)
(***************************************************************************)
hideHoverIndicator(s) == [s EXCEPT !.hoverShown = FALSE]

showHoverIndicator(s) == [s EXCEPT !.hoverShown = TRUE]

showFloatingToolbar(s) ==
    IF s.isEnabled THEN [s EXCEPT !.toolbarVisible = TRUE] ELSE s

hideFloatingToolbar(s) == [s EXCEPT !.toolbarVisible = FALSE]

\* A new element without left/top/width/height is appended to body and the
\* field is overwritten; an overlay the field referred to stays in the document.
createDrawingOverlay(s) ==
    [s EXCEPT !.drawingOverlay =
                  <<[sized |-> FALSE, left |-> 0, top |-> 0, width |-> 0, height |-> 0]>>,
              !.previewsInDocument = @ + 1]

hideDrawingOverlay(s) ==
    IF s.drawingOverlay # <<>>
    THEN [s EXCEPT !.drawingOverlay = <<>>, !.previewsInDocument = @ - 1]
    ELSE s

\* Function.prototype.bind returns a function object that is new at every call.
BindThis(registered) ==
    CHOOSE f \in 1..(Cardinality(registered) + 1) : f \notin registered

AllTextListeners(s) == s.textListeners.mouseup \cup s.textListeners.touchend

addEventListener(listeners, type, f) ==
    [listeners EXCEPT ![type] = @ \cup {f}]

removeEventListener(listeners, type, f) ==
    [listeners EXCEPT ![type] = @ \ {f}]

setupTextSelectionMode(s) ==
    LET f1 == BindThis(AllTextListeners(s))
        l1 == addEventListener(s.textListeners, "mouseup", f1)
        f2 == BindThis(l1.mouseup \cup l1.touchend)
        l2 == addEventListener(l1, "touchend", f2)
    IN  [s EXCEPT !.textListeners = l2]

cleanupTextSelectionMode(s) ==
    LET f1 == BindThis(AllTextListeners(s))
        l1 == removeEventListener(s.textListeners, "mouseup", f1)
        f2 == BindThis(AllTextListeners(s) \cup {f1})
        l2 == removeEventListener(l1, "touchend", f2)
    IN  [s EXCEPT !.textListeners = l2]

\* hideAllBlurs / restoreAllBlurs only rewrite inline filters of existing
\* effects; the body classes carry the enabled / eraser state.
updateDisabledState(s) ==
    LET c1 == IF s.isEnabled
              THEN (s.bodyClasses \ {"blur-anything-disabled"}) \cup {"blur-anything-enabled"}
              ELSE (s.bodyClasses \cup {"blur-anything-disabled"}) \ {"blur-anything-enabled"}
        c2 == IF s.isEraserMode
              THEN c1 \cup {"blur-anything-eraser-mode"}
              ELSE c1 \ {"blur-anything-eraser-mode"}
    IN  [s EXCEPT !.bodyClasses = c2]

\* The toolbar exists once init has run; its buttons' "active" classes are
\* not part of the state.
updateToolbarStates(s) == updateDisabledState(s)

setExclusiveMode(s, mode) ==
    IF ~s.isEnabled /\ mode # "none"
    THEN s
    ELSE LET s1 == [s EXCEPT !.isBlurMode = FALSE, !.isDrawingMode = FALSE,
                             !.isTextSelectionMode = FALSE, !.isEraserMode = FALSE,
                             !.cursor = "default"]
             s2 == cleanupTextSelectionMode(s1)
             s3 == CASE mode = "blur" ->
                          [s2 EXCEPT !.isBlurMode = TRUE, !.cursor = "pointer"]
                    [] mode = "draw" ->
                          hideHoverIndicator(
                              [s2 EXCEPT !.isDrawingMode = TRUE, !.cursor = "crosshair"])
                    [] mode = "text" ->
                          setupTextSelectionMode(hideHoverIndicator(
                              [s2 EXCEPT !.isTextSelectionMode = TRUE, !.cursor = "text"]))
                    [] mode = "eraser" ->
                          hideHoverIndicator(
                              [s2 EXCEPT !.isEraserMode = TRUE, !.cursor = "crosshair"])
                    [] OTHER -> s2
         IN  updateDisabledState(updateToolbarStates(s3))

(***************************************************************************)
(* FreemiumService.                                                        *)
(***************************************************************************)
isPremium(s) == s.currentTier = "premium"

allowedBlurTypes(s) ==
    IF s.currentTier = "premium"
    THEN {"click", "rectangle", "text", "custom-area"}
    ELSE {"click", "rectangle", "text"}

canUseBlurType(s, blurType) == blurType \in allowedBlurTypes(s)

\* Every feature name the content script passes ("text-selection", "save")
\* falls to the default branch.
checkFeatureAccess(s, feature) ==
    CASE feature = "blur-type-rectangle" -> "rectangle" \in allowedBlurTypes(s)
      [] feature = "blur-type-text" -> "text" \in allowedBlurTypes(s)
      [] feature = "blur-type-custom" -> "custom-area" \in allowedBlurTypes(s)
      [] OTHER -> TRUE

canAddBlur(s) == isPremium(s) \/ s.blurCount < MaxBlursPerDayFree

\* maxRectangleSize is Infinity x Infinity for the premium tier.
ExceedsMaxRectangle(s, width, height) ==
    /\ ~isPremium(s)
    /\ (width > MaxRectangleFree \/ height > MaxRectangleFree)

incrementDailyBlurCount(s) ==
    IF isPremium(s) THEN s ELSE [s EXCEPT !.blurCount = @ + 1]

updateAuthState(s, user) ==
    [s EXCEPT !.currentTier = IF user THEN "premium" ELSE "free"]

(***************************************************************************)
(* The document.  An element is a record; the tree is the sequence of its  *)
(* elements in document order, each naming its parent by key (0: none).    *)
(* blurId and fallback are the data-blur-id and data-blur-fallback         *)
(* attributes (0: not set).                                                *)
(***************************************************************************)
Element(key, tag, classes, id, parent) ==
    [key |-> key, tag |-> tag, classes |-> classes, id |-> id, parent |-> parent,
     blurId |-> 0, fallback |-> 0]

HtmlEl == Element(8, "html", <<>>, "", 0)
BodyEl == Element(9, "body", <<>>, "", 8)
BoxEl == Element(3, "div", <<"box">>, "", 9)

\* The page as it is when the user marks it: two notes in a box.
BuiltPage ==
    <<HtmlEl, BodyEl, BoxEl,
      Element(1, "p", <<"note">>, "", 3), Element(2, "p", <<"note">>, "", 3)>>

\* The page before its content has been built.
PartialPage == <<HtmlEl, BodyEl>>

\* The page after the first note has been removed for good.
PrunedPage == <<HtmlEl, BodyEl, BoxEl, Element(2, "p", <<"note">>, "", 3)>>

\* The page after the box around the notes has been renamed.
RewrappedPage ==
    <<HtmlEl, BodyEl, Element(3, "section", <<"wrap">>, "", 9),
      Element(1, "p", <<"note">>, "", 3), Element(2, "p", <<"note">>, "", 3)>>

Keys(t) == {t[i].key : i \in 1..Len(t)}

ElementOf(t, key) == t[CHOOSE i \in 1..Len(t) : t[i].key = key]

\* parent.children
Children(t, parent) ==
    LET IsChild(e) == e.parent = parent
    IN  SelectSeq(t, IsChild)

IndexOf(els, key) == CHOOSE i \in 1..Len(els) : els[i].key = key

RECURSIVE IsDescendant(_, _, _)
IsDescendant(t, e, ancestor) ==
    /\ e.parent # 0
    /\ \/ e.parent = ancestor
       \/ IsDescendant(t, ElementOf(t, e.parent), ancestor)

\* Strings that /^[a-zA-Z_-][a-zA-Z0-9_-]*$/ rejects, among those of the model.
MalformedIdentifiers == {"2col", "a b"}

isValidCSSIdentifier(str) == str \notin MalformedIdentifiers

(***************************************************************************)
(* Selector strings.  "#id" is IdText, a chain "a.x > b.y:nth-child(k)"    *)
(* is PathText over its compound segments, "[data-blur-id=...]" and        *)
(* "[data-blur-fallback=...]" are AttrText.  A segment's pseudo is 0 for   *)
(* none, k > 0 for :nth-child(k) and -1 for a pseudo-class the selector    *)
(* engine does not know.                                                   *)
(***************************************************************************)
Segment(tag, classes, pseudo) == [tag |-> tag, classes |-> classes, pseudo |-> pseudo]

IdText(id) == [form |-> "id", id |-> id, n |-> 0, segs |-> <<>>]
PathText(segs) == [form |-> "path", id |-> "", n |-> 0, segs |-> segs]
AttrText(name, n) == [form |-> name, id |-> "", n |-> n, segs |-> <<>>]

\* querySelector(text) raises a SyntaxError: the empty string, or a segment
\* with an unknown pseudo-class or without a type and without a class.
Throws(text) ==
    /\ text.form = "path"
    /\ \/ text.segs = <<>>
       \/ \E i \in 1..Len(text.segs) :
             \/ text.segs[i].pseudo < 0
             \/ text.segs[i].tag = "" /\ text.segs[i].classes = <<>>

MatchesCompound(t, e, seg) ==
    /\ seg.tag = "" \/ e.tag = seg.tag
    /\ \A i \in 1..Len(seg.classes) :
           \E j \in 1..Len(e.classes) : e.classes[j] = seg.classes[i]
    /\ seg.pseudo > 0 => IndexOf(Children(t, e.parent), e.key) = seg.pseudo

\* The child combinator: each segment must match the parent of the next.
RECURSIVE MatchesPath(_, _, _)
MatchesPath(t, e, segs) ==
    /\ MatchesCompound(t, e, segs[Len(segs)])
    /\ \/ Len(segs) = 1
       \/ /\ e.parent # 0
          /\ MatchesPath(t, ElementOf(t, e.parent), SubSeq(segs, 1, Len(segs) - 1))

\* document.querySelectorAll(text), for a text that does not throw.
querySelectorAll(t, text) ==
    LET Hit(e) ==
            CASE text.form = "id" -> e.id = text.id
              [] text.form = "path" -> MatchesPath(t, e, text.segs)
              [] text.form = "data-blur-id" -> e.blurId = text.n
              [] text.form = "data-blur-fallback" -> e.fallback = text.n
    IN  SelectSeq(t, Hit)

\* document.querySelector(text): <<>> is null, else << key >> of the first match.
FirstKey(matches) == IF matches = <<>> THEN <<>> ELSE <<matches[1].key>>

querySelector(t, text) == FirstKey(querySelectorAll(t, text))

MaxAttempts == 6            \* generateSelector: maxAttempts
MaxSelectorClasses == 3     \* generateSelector: slice(0, 3)
MaxNthSiblings == 20        \* generateSelector: siblings.length <= 20

ValidClasses(e) == SelectSeq(e.classes, isValidCSSIdentifier)

\* parent.querySelectorAll(tag + classes).length > 1
shouldAddNthChild(t, e, parent) ==
    IF e.classes # <<>> /\ ValidClasses(e) = <<>>
    THEN TRUE   \* "tag." cannot be tested
    ELSE LET Hit(d) == /\ IsDescendant(t, d, parent)
                       /\ MatchesCompound(t, d, Segment(e.tag, ValidClasses(e), 0))
         IN  Len(SelectSeq(t, Hit)) > 1

FirstClasses(valid) == SubSeq(valid, 1, Min(MaxSelectorClasses, Len(valid)))

SameTagSiblings(t, current) ==
    LET SameTag(sibling) == sibling.tag = current.tag
    IN  SelectSeq(Children(t, current.parent), SameTag)

NthAmong(t, current, siblings) ==
    IF /\ current.parent # 0
       /\ shouldAddNthChild(t, current, current.parent)
       /\ Len(siblings) > 1
       /\ Len(siblings) <= MaxNthSiblings
    THEN IndexOf(siblings, current.key)
    ELSE 0

\* The compound selector generateSelector writes for one level of the path.
LevelSelector(t, current) ==
    Segment(current.tag, FirstClasses(ValidClasses(current)),
            NthAmong(t, current, SameTagSiblings(t, current)))

IsOnly(matches, key) == Len(matches) = 1 /\ matches[1].key = key

\* The while loop of generateSelector: <<TRUE, path>> when a test selector
\* was found unique, <<FALSE, path>> when the loop ran out.
RECURSIVE BuildPath(_, _, _, _, _)
RECURSIVE ExtendPath(_, _, _, _, _)
BuildPath(t, key, current, path, attempts) ==
    IF current = 0 \/ current = BodyEl.key \/ attempts >= MaxAttempts
    THEN <<FALSE, path>>
    ELSE ExtendPath(t, key, ElementOf(t, current).parent,
                    <<LevelSelector(t, ElementOf(t, current))>> \o path, attempts + 1)

ExtendPath(t, key, next, longer, attempts) ==
    IF Len(longer) >= 2 /\ IsOnly(querySelectorAll(t, PathText(longer)), key)
    THEN <<TRUE, longer>>
    ELSE BuildPath(t, key, next, longer, attempts)

\* blur-<timestamp>-<random>: a value no element carries yet.
NewAttrValue(t) ==
    CHOOSE n \in 1..(Len(t) + 1) :
        \A i \in 1..Len(t) : t[i].blurId # n /\ t[i].fallback # n

SetAttr(t, key, name, n) ==
    [i \in 1..Len(t) |->
        IF t[i].key # key THEN t[i]
        ELSE IF name = "data-blur-id" THEN [t[i] EXCEPT !.blurId = n]
        ELSE [t[i] EXCEPT !.fallback = n]]

\* generateSelector(element) on tree t: the selector string it returns and
\* the tree it leaves, which differs when the element was given an attribute.
ImprintBlurId(t, key, n) ==
    [selector |-> AttrText("data-blur-id", n), tree |-> SetAttr(t, key, "data-blur-id", n)]

\* What generateSelector returns once the loop has ended.
SelectorOfPath(t, key, built) ==
    IF built[1] THEN [selector |-> PathText(built[2]), tree |-> t]
    ELSE IF ~Throws(PathText(built[2])) /\ querySelector(t, PathText(built[2])) = <<key>>
    THEN [selector |-> PathText(built[2]), tree |-> t]
    ELSE ImprintBlurId(t, key, NewAttrValue(t))

HasValidId(element) == element.id # "" /\ isValidCSSIdentifier(element.id)

generateSelectorIn(t, key) ==
    IF HasValidId(ElementOf(t, key))
    THEN [selector |-> IdText(ElementOf(t, key).id), tree |-> t]
    ELSE SelectorOfPath(t, key, BuildPath(t, key, key, <<>>, 0))

WithoutPseudo(seg) == [seg EXCEPT !.pseudo = 0]
WithoutClasses(seg) == [seg EXCEPT !.classes = <<>>, !.pseudo = 0]

MapSegs(segs, Op(_)) == [i \in 1..Len(segs) |-> Op(segs[i])]

\* What the regular expressions of createFallbackSelector leave of a
\* selector string: pseudo-classes and attribute selectors are cut out by
\* methods 1 to 3, class tokens by method 3.
Simplified(text) ==
    IF text.form = "path" THEN PathText(MapSegs(text.segs, WithoutPseudo))
    ELSE IF text.form = "id" THEN text
    ELSE PathText(<<>>)

LastPart(text) == PathText(<<WithoutPseudo(text.segs[Len(text.segs)])>>)

TagOnly(text) ==
    IF text.form = "path" THEN PathText(MapSegs(text.segs, WithoutClasses))
    ELSE IF text.form = "id" THEN text
    ELSE PathText(<<>>)

Finds(t, text) == ~Throws(text) /\ querySelector(t, text) # <<>>

\* createFallbackSelector(blurData, index) on tree t: selector is <<>> for
\* null, else << text >>; tree is the tree it leaves.
Untagged(t) == {i \in 1..Len(t) : t[i].fallback = 0}

\* Method 4: the first element without data-blur-fallback is given one.
TagFirstUntagged(t, untagged, n) ==
    IF untagged # {}
    THEN [selector |-> <<AttrText("data-blur-fallback", n)>>,
          tree |-> SetAttr(t, t[CHOOSE i \in untagged : \A j \in untagged : i <= j].key,
                           "data-blur-fallback", n)]
    ELSE [selector |-> <<>>, tree |-> t]

\* The candidates of methods 1 to 3, in the order they are tried.
Relaxations(text) ==
    <<Simplified(text)>>
    \o (IF Len(text.segs) > 1 THEN <<LastPart(text)>> ELSE <<>>)
    \o (IF TagOnly(text) # PathText(<<>>) /\ TagOnly(text) # text
        THEN <<TagOnly(text)>> ELSE <<>>)

FirstFinding(t, found) ==
    IF found # <<>> THEN [selector |-> <<found[1]>>, tree |-> t]
    ELSE TagFirstUntagged(t, Untagged(t), NewAttrValue(t))

createFallbackSelector(t, text) ==
    LET Found(candidate) == Finds(t, candidate)
    IN  FirstFinding(t, SelectSeq(Relaxations(text), Found))

\* The content script's AUTH_STATE_CHANGED listener.
onAuthStateChanged(s, user) ==
    updateAuthState([s EXCEPT !.currentUser = user], user)

(***************************************************************************)
(* Marks (BlurData) and locators.  A selector string is a record: a path   *)
(* selector names the page node it resolves to, an id selector the id,     *)
(* an area selector the data-coords pair.                                  *)
(***************************************************************************)
PathSelector(n) == [kind |-> "path", a |-> n, b |-> 0]
IdSelector(id) == [kind |-> "id", a |-> id, b |-> 0]
AreaSelector(x, y) == [kind |-> "area", a |-> x, b |-> y]

ElementMark(selector) ==
    [type |-> "element", selector |-> selector, coords |-> <<>>, text |-> ""]
AreaMark(x, y, w, h) ==
    [type |-> "area", selector |-> AreaSelector(x, y), coords |-> <<x, y, w, h>>, text |-> ""]
TextMark(selector, text) ==
    [type |-> "text", selector |-> selector, coords |-> <<>>, text |-> text]

NodeTarget(n) == [kind |-> "node", ref |-> n]
AreaTarget(i) == [kind |-> "area", ref |-> i]
SpanTarget(id) == [kind |-> "span", ref |-> id]

\* The page nodes are those whose synthesized selector resolves back to them;
\* a text-blur span carries a valid id, so the id shortcut is taken.
generateSelector(s, target) ==
    IF target.kind = "span" THEN IdSelector(target.ref) ELSE PathSelector(target.ref)

\* document.querySelector(selector) === target
Resolves(s, selector, target) ==
    \/ selector.kind = "path" /\ target.kind = "node" /\ selector.a = target.ref
    \/ /\ selector.kind = "id" /\ target.kind = "span" /\ selector.a = target.ref
       /\ \E sp \in s.textSpans : sp.id = target.ref

RemoveAt(seq, i) == SubSeq(seq, 1, i - 1) \o SubSeq(seq, i + 1, Len(seq))

SpanText(s, id) == (CHOOSE sp \in s.textSpans : sp.id = id).text

UsedTextIds(s) ==
    LET OfSeq(seq) == {seq[i].selector.a : i \in {j \in 1..Len(seq) : seq[j].selector.kind = "id"}}
    IN  {sp.id : sp \in s.textSpans} \cup OfSeq(s.blurredElements)
        \cup UNION {OfSeq(s.extStore[url]) : url \in DOMAIN s.extStore}
        \cup UNION {UNION {OfSeq(s.firebase[key][i]) : i \in 1..Len(s.firebase[key])} :
                        key \in DOMAIN s.firebase}
        \cup UNION {OfSeq(s.localData[i].blurData) : i \in 1..Len(s.localData)}

\* blur-text-<timestamp>-<random>: an id no element and no stored mark carries.
generateSelectorForTextBlur(s) ==
    CHOOSE id \in 1..(Cardinality(UsedTextIds(s)) + 1) : id \notin UsedTextIds(s)

(***************************************************************************)
(* Persistence Gateway, content-script side.                               *)
(***************************************************************************)
\* One localStorage item holds the marks of one URL.
saveBlurDataLocally(s) ==
    [s EXCEPT !.localData = <<[url |-> s.href, blurData |-> s.blurredElements]>>]

loadBlurDataLocally(s) ==
    IF s.localData # <<>> /\ s.localData[1].url = s.href
    THEN s.localData[1].blurData
    ELSE <<>>

clearLocalData(s) == [s EXCEPT !.localData = <<>>]

isAuthenticated(s) == s.currentUser

\* btoa(url).replace(/[^a-zA-Z0-9]/g, "_")
getUrlKey(url) ==
    CASE url = "https://site.test/a" -> "aHR0cHM6Ly9zaXRlLnRlc3QvYQ__"
      [] url = "https://site.test/b" -> "aHR0cHM6Ly9zaXRlLnRlc3QvYg__"

UrlKeys == {getUrlKey(url) : url \in Urls}

\* SyncService.saveBlurData: setDoc under the key of the URL.
syncSaveBlurData(s, url, blurData) ==
    [s EXCEPT !.firebase[getUrlKey(url)] = <<blurData>>]

\* SyncService.loadBlurData: the blurs of the document, [] without one.
syncLoadBlurData(s, url) ==
    IF ~s.currentUser THEN <<>>
    ELSE IF s.firebase[getUrlKey(url)] # <<>> THEN s.firebase[getUrlKey(url)][1]
    ELSE <<>>

\* The background worker stores message.blurData under message.url, when
\* the message carries a URL.
bgSaveBlurData(s, saveUrl, blurData) ==
    IF saveUrl # <<>> THEN [s EXCEPT !.extStore[saveUrl[1]] = blurData] ELSE s

bgGetBlurData(s, url) == s.extStore[url]

\* saveBlurData without its message to the background worker.
saveBlurData_SkipsExtensionStore(s) ==
    LET s1 == saveBlurDataLocally(s)
    IN  IF isAuthenticated(s1)
        THEN syncSaveBlurData(s1, s1.href, s1.blurredElements)
        ELSE s1

saveBlurData(s) ==
    LET s1 == saveBlurDataLocally(s)
        s2 == IF isAuthenticated(s1)
              THEN syncSaveBlurData(s1, s1.href, s1.blurredElements)
              ELSE s1
    IN  bgSaveBlurData(s2, <<s2.href>>, s2.blurredElements)

(***************************************************************************)
(* Click gestures: point marks and the eraser.                             *)
(***************************************************************************)
HasClass(s, target, class) ==
    CASE class = "blur-anything-blurred" ->
             target.kind = "node" /\ target.ref \in s.blurredNodes
      [] class = "blur-anything-text-blur" ->
             target.kind = "span" /\ \E sp \in s.textSpans : sp.id = target.ref
      [] class = "blur-anything-area" -> target.kind = "area"
      [] OTHER -> FALSE

\* getComputedStyle(target).filter includes "blur": the inline filter of a
\* blurred node or text span, unless the blurs-hidden rule (filter: none
\* !important) overrides it.  An area overlay carries backdrop-filter only.
ComputedFilterBlur(s, target) ==
    /\ ~s.blursHidden
    /\ \/ HasClass(s, target, "blur-anything-blurred")
       \/ HasClass(s, target, "blur-anything-text-blur")

isElementBlurredByCSS(s, target) ==
    \/ \E i \in 1..Len(s.blurredElements) :
          /\ s.blurredElements[i].type = "element"
          /\ Resolves(s, s.blurredElements[i].selector, target)
    \/ ComputedFilterBlur(s, target)

\* Strips filter, marker classes and attributes from the element.
removeBlurFromElement(s, target) ==
    CASE target.kind = "node" -> [s EXCEPT !.blurredNodes = @ \ {target.ref}]
      [] target.kind = "span" ->
             [s EXCEPT !.textSpans = {sp \in @ : sp.id # target.ref}]
      [] OTHER -> s

applyBlurToElement(s, target) ==
    [s EXCEPT !.blurredNodes = @ \cup {target.ref}]

unblurElement(s, target, selector) ==
    LET s1 == removeBlurFromElement(s, target)
        Keep(blur) == blur.selector # selector
        s2 == [s1 EXCEPT !.blurredElements = SelectSeq(@, Keep)]
    IN  saveBlurData(s2)

eraseBlur(s, target) ==
    IF HasClass(s, target, "blur-anything-blurred") \/ isElementBlurredByCSS(s, target)
    THEN LET hits == {i \in 1..Len(s.blurredElements) :
                         /\ s.blurredElements[i].type = "element"
                         /\ Resolves(s, s.blurredElements[i].selector, target)}
             first == CHOOSE i \in hits : \A j \in hits : i <= j
             selector == IF hits # {} THEN s.blurredElements[first].selector
                         ELSE generateSelector(s, target)
         IN  unblurElement(s, target, selector)
    ELSE IF HasClass(s, target, "blur-anything-text-blur")
    THEN LET textContent == SpanText(s, target.ref)
             s1 == [s EXCEPT !.textSpans = {sp \in @ : sp.id # target.ref}]
             KeepId(blur) == blur.selector # IdSelector(target.ref)
             s2 == [s1 EXCEPT !.blurredElements = SelectSeq(@, KeepId)]
             KeepText(blur) == ~(blur.type = "text" /\ blur.text # "" /\ blur.text = textContent)
             s3 == [s2 EXCEPT !.blurredElements = SelectSeq(@, KeepText)]
         IN  saveBlurData(s3)
    ELSE IF HasClass(s, target, "blur-anything-area")
    THEN LET el == s.areaEls[target.ref]
             x == el[1]
             y == el[2]
             s1 == [s EXCEPT !.areaEls = RemoveAt(@, target.ref)]
             Keep(blur) == \/ blur.coords = <<>>
                           \/ blur.coords[1] # x
                           \/ blur.coords[2] # y
         IN  [s1 EXCEPT !.blurredElements = SelectSeq(@, Keep)]
    ELSE s

blurElement(s, target) ==
    IF ~canUseBlurType(s, "click") THEN s
    ELSE IF ~canAddBlur(s) THEN s
    ELSE LET selector == generateSelector(s, target)
         IN  IF \E i \in 1..Len(s.blurredElements) :
                    s.blurredElements[i].selector = selector
             THEN unblurElement(s, target, selector)
             ELSE LET s1 == applyBlurToElement(s, target)
                      s2 == incrementDailyBlurCount(s1)
                  IN  [s2 EXCEPT !.blurredElements = Append(@, ElementMark(selector))]

handleClick(s, target) ==
    IF ~s.isEnabled THEN s
    ELSE LET isBlurredElement ==
                 \/ HasClass(s, target, "blur-anything-blurred")
                 \/ HasClass(s, target, "blur-anything-text-blur")
                 \/ isElementBlurredByCSS(s, target)
         IN  IF isBlurredElement /\ (s.isEraserMode \/ ~s.isEnabled)
             THEN eraseBlur(s, target)
             ELSE IF isBlurredElement /\ s.isBlurMode THEN s
             ELSE IF ~s.isBlurMode /\ ~s.isEraserMode THEN s
             ELSE IF ~s.toolbarVisible THEN s
             ELSE IF s.isEraserMode THEN eraseBlur(s, target)
             ELSE blurElement(s, target)

(***************************************************************************)
(* Text marks.                                                             *)
(***************************************************************************)
\* The selection is a run of plain text inside one text node of the page,
\* no longer than the tier's limit: every validation after the quota passes.
\* A text gesture that does not ask canAddBlur.
handleTextSelection_NoQuota(s, selectedText) ==
    IF ~s.isEnabled \/ ~s.isTextSelectionMode THEN s
    ELSE IF ~checkFeatureAccess(s, "text-selection") THEN s
    ELSE LET id == generateSelectorForTextBlur(s)
             s1 == [s EXCEPT !.textSpans = @ \cup {[id |-> id, text |-> selectedText]}]
             s2 == [s1 EXCEPT !.blurredElements =
                                  Append(@, TextMark(IdSelector(id), selectedText))]
         IN  incrementDailyBlurCount(s2)

handleTextSelection(s, selectedText) ==
    IF ~s.isEnabled \/ ~s.isTextSelectionMode THEN s
    ELSE IF ~checkFeatureAccess(s, "text-selection") THEN s
    ELSE IF ~canAddBlur(s) THEN s
    ELSE LET id == generateSelectorForTextBlur(s)
             s1 == [s EXCEPT !.textSpans = @ \cup {[id |-> id, text |-> selectedText]}]
             s2 == [s1 EXCEPT !.blurredElements =
                                  Append(@, TextMark(IdSelector(id), selectedText))]
         IN  incrementDailyBlurCount(s2)

(***************************************************************************)
(* Region draw sub-protocol.                                               *)
(***************************************************************************)
\* drawingOverlay.getBoundingClientRect() in document coordinates: the box
\* is content-box, so the dashed border adds to the styled width and height.
BoundingRect(box) ==
    IF box.sized
    THEN <<box.left, box.top,
           box.width + 2 * PreviewBorderPx, box.height + 2 * PreviewBorderPx>>
    ELSE <<FlowEnd[1], FlowEnd[2], 2 * PreviewBorderPx, 2 * PreviewBorderPx>>

handleMouseDown(s, p) ==
    IF ~s.isEnabled \/ ~s.isDrawingMode THEN s
    ELSE createDrawingOverlay([s EXCEPT !.startCoords = p])

handleMouseMove(s, p) ==
    IF ~s.isEnabled \/ ~s.isDrawingMode \/ s.startCoords = <<>> \/ s.drawingOverlay = <<>>
    THEN s
    ELSE [s EXCEPT !.drawingOverlay =
                       <<[sized |-> TRUE,
                          left |-> Min(p[1], s.startCoords[1]),
                          top |-> Min(p[2], s.startCoords[2]),
                          width |-> Abs(p[1] - s.startCoords[1]),
                          height |-> Abs(p[2] - s.startCoords[2])]>>]

createBlurArea(s) ==
    IF s.drawingOverlay = <<>> \/ s.startCoords = <<>> THEN s
    ELSE LET rect == BoundingRect(s.drawingOverlay[1])
             s1 == [s EXCEPT !.areaEls = Append(@, rect)]
             s2 == [s1 EXCEPT !.blurredElements =
                                  Append(@, AreaMark(rect[1], rect[2], rect[3], rect[4]))]
         IN  incrementDailyBlurCount(s2)

DiscardPreview(s) == [hideDrawingOverlay(s) EXCEPT !.startCoords = <<>>]

\* A release handler whose minimum-size test also refuses the minimum itself.
handleMouseUp_RefusesMinimum(s, p) ==
    IF ~s.isEnabled \/ ~s.isDrawingMode \/ s.startCoords = <<>> \/ s.drawingOverlay = <<>>
    THEN s
    ELSE LET width == Abs(p[1] - s.startCoords[1])
             height == Abs(p[2] - s.startCoords[2])
         IN  IF width <= MinRegionSize \/ height <= MinRegionSize THEN DiscardPreview(s)
             ELSE IF ExceedsMaxRectangle(s, width, height) THEN DiscardPreview(s)
             ELSE IF ~canAddBlur(s) THEN DiscardPreview(s)
             ELSE DiscardPreview(createBlurArea(s))

handleMouseUp(s, p) ==
    IF ~s.isEnabled \/ ~s.isDrawingMode \/ s.startCoords = <<>> \/ s.drawingOverlay = <<>>
    THEN s
    ELSE LET width == Abs(p[1] - s.startCoords[1])
             height == Abs(p[2] - s.startCoords[2])
         IN  IF width < MinRegionSize \/ height < MinRegionSize THEN DiscardPreview(s)
             ELSE IF ExceedsMaxRectangle(s, width, height) THEN DiscardPreview(s)
             ELSE IF ~canAddBlur(s) THEN DiscardPreview(s)
             ELSE DiscardPreview(createBlurArea(s))

(***************************************************************************)
(* Hover indicator.                                                        *)
(***************************************************************************)
handleMouseOver(s) ==
    IF ~s.isEnabled \/ (~s.isBlurMode /\ ~s.isEraserMode) THEN s
    ELSE IF ~s.toolbarVisible THEN s
    ELSE showHoverIndicator(s)

handleMouseOut(s) ==
    IF ~s.isEnabled \/ (~s.isBlurMode /\ ~s.isEraserMode) THEN s
    ELSE hideHoverIndicator(s)

(***************************************************************************)
(* Keyboard, toolbar and runtime messages.                                 *)
(***************************************************************************)
handleKeyDown(s, key) ==
    IF ~s.isEnabled THEN s
    ELSE LET s1 == IF key = "Ctrl+Shift+B"
                   THEN IF s.isDrawingMode
                        THEN setExclusiveMode(s, "none")
                        ELSE setExclusiveMode(s, "draw")
                   ELSE s
         IN  IF key = "Escape" /\ (s1.isDrawingMode \/ s1.isEraserMode)
             THEN hideDrawingOverlay(setExclusiveMode(s1, "none"))
             ELSE s1

ModeFlag(s, mode) ==
    CASE mode = "blur" -> s.isBlurMode
      [] mode = "draw" -> s.isDrawingMode
      [] mode = "text" -> s.isTextSelectionMode
      [] mode = "eraser" -> s.isEraserMode
      [] OTHER -> FALSE

\* A mode button that enters its mode whatever the current mode is.
toolbarModeClick_NoToggle(s, mode) == setExclusiveMode(s, mode)

\* click listeners of #toolbarBlurMode, #toolbarDrawMode, #toolbarTextMode
\* and #toolbarEraserMode
toolbarModeClick(s, mode) ==
    IF ModeFlag(s, mode) THEN setExclusiveMode(s, "none") ELSE setExclusiveMode(s, mode)

toolbarCloseClick(s) == hideFloatingToolbar(setExclusiveMode(s, "none"))

toggleAllBlurs(s) ==
    LET hidden == ~s.blursHidden
    IN  [s EXCEPT !.blursHidden = hidden,
                  !.bodyClasses = IF hidden THEN @ \cup {"blur-anything-blurs-hidden"}
                                  ELSE @ \ {"blur-anything-blurs-hidden"}]

clearAllBlurs(s) ==
    LET s1 == [s EXCEPT !.blurredNodes = {}, !.areaEls = <<>>, !.textSpans = {}]
        s2 == [s1 EXCEPT !.blurredElements = <<>>]
    IN  clearLocalData(saveBlurData(s2))

saveCurrentBlurs(s) ==
    IF ~checkFeatureAccess(s, "save") THEN s
    ELSE IF Len(s.blurredElements) = 0 THEN s
    ELSE saveBlurData(s)

\* message.settings.isEnabled is the argument; blurIntensity is not modelled.
msgSettingsUpdated(s, enabled) ==
    updateDisabledState(updateToolbarStates([s EXCEPT !.isEnabled = enabled]))

msgToggleExtension(s) ==
    LET s1 == [s EXCEPT !.isEnabled = ~@]
        s2 == IF ~s1.isEnabled
              THEN [hideFloatingToolbar(cleanupTextSelectionMode(
                        [s1 EXCEPT !.isBlurMode = FALSE, !.isDrawingMode = FALSE,
                                   !.isTextSelectionMode = FALSE, !.isEraserMode = FALSE]))
                    EXCEPT !.cursor = "default"]
              ELSE setExclusiveMode(s1, "blur")
    IN  updateToolbarStates(s2)

msgToggleDrawMode(s) ==
    IF ~s.isEnabled THEN s
    ELSE LET s1 == [s EXCEPT !.isDrawingMode = ~@]
             s2 == [s1 EXCEPT !.cursor = IF s1.isDrawingMode THEN "crosshair" ELSE "default"]
         IN  IF s2.isDrawingMode THEN hideHoverIndicator(s2) ELSE s2

msgToggleEraserMode(s) ==
    IF ~s.isEnabled THEN s
    ELSE LET s1 == [s EXCEPT !.isEraserMode = ~@]
             s2 == [s1 EXCEPT !.cursor = IF s1.isEraserMode THEN "crosshair" ELSE "default"]
             s3 == IF s2.isEraserMode THEN hideHoverIndicator(s2) ELSE s2
         IN  updateDisabledState(s3)

msgShowToolbar(s) ==
    IF s.isEnabled THEN setExclusiveMode(showFloatingToolbar(s), "blur") ELSE s

msgHideToolbar(s) ==
    LET s1 == hideFloatingToolbar(s)
        s2 == [s1 EXCEPT !.isBlurMode = FALSE, !.isDrawingMode = FALSE,
                         !.isTextSelectionMode = FALSE, !.isEraserMode = FALSE]
        s3 == cleanupTextSelectionMode(s2)
    IN  hideHoverIndicator([s3 EXCEPT !.cursor = "default"])

msgSaveBlurData(s, forceSync) == IF forceSync THEN saveBlurData(s) ELSE s

handleMessage(s, action, arg) ==
    CASE action = "settingsUpdated" -> msgSettingsUpdated(s, arg)
      [] action = "clearAllBlurs" -> clearAllBlurs(s)
      [] action = "toggleExtension" -> msgToggleExtension(s)
      [] action = "toggleDrawMode" -> msgToggleDrawMode(s)
      [] action = "toggleEraserMode" -> msgToggleEraserMode(s)
      [] action = "toggleAllBlurs" -> toggleAllBlurs(s)
      [] action = "saveBlurData" -> msgSaveBlurData(s, arg)
      [] action = "showToolbar" -> msgShowToolbar(s)
      [] action = "hideToolbar" -> msgHideToolbar(s)
      [] OTHER -> s

(***************************************************************************)
(* Restoration Coordinator.                                                *)
(***************************************************************************)
\* Selector strings the store can hold that generateSelector did not write
\* on this page: "div.box > p.note:first", which the engine rejects.
StoredSelectors ==
    <<PathText(<<Segment("div", <<"box">>, 0), Segment("p", <<"note">>, -1)>>)>>

CssSelector(k) == [kind |-> "css", a |-> k, b |-> 0]

\* The string behind a stored element selector: a path selector is what
\* generateSelector returned for the node on the page the user marked.
SelectorText(selector) ==
    IF selector.kind = "path"
    THEN generateSelectorIn(BuiltPage, selector.a).selector
    ELSE StoredSelectors[selector.a]

\* Text runs of the page, by the element whose text node holds them.
LeafTexts(key) ==
    CASE key = 1 -> <<"alpha", "x">>
      [] key = 2 -> <<"alpha", "beta">>
      [] OTHER -> <<>>

MinScanLength == 2     \* findAndBlurTextContent: trim().length < 2

\* Text nodes of the document that hold the text and are not inside a
\* text-blur span.
PlainOccurrences(s, text) ==
    LET leaves == {<<key, i>> \in Keys(s.tree) \X (1..2) :
                      i <= Len(LeafTexts(key)) /\ LeafTexts(key)[i] = text}
    IN  Cardinality(leaves) - Cardinality({sp \in s.textSpans : sp.text = text})

ProblematicTags ==
    {"html", "head", "title", "meta", "link", "script", "style", "noscript",
     "iframe", "embed", "object", "svg", "canvas"}

\* The elements of the model are attached, visible and not read-only.
canApplyBlurToElement(s, target) ==
    target.kind = "node" => ElementOf(s.tree, target.ref).tag \notin ProblematicTags

areValidCoordinates(coords) ==
    /\ Len(coords) = 4
    /\ coords[3] > 0 /\ coords[4] > 0 /\ coords[1] >= 0 /\ coords[2] >= 0

recreateBlurArea(s, blurData) == [s EXCEPT !.areaEls = Append(@, blurData.coords)]

preInjectBlurCSS(s, blurData) ==
    [s EXCEPT !.instantCss =
         @ \cup {blurData[i].selector :
                    i \in {j \in 1..Len(blurData) : blurData[j].type = "element"}}]

\* The element an element mark designates on the current tree: the state
\* after the lookup (createFallbackSelector may tag an element), and the
\* element, <<>> for null.
AsNode(found) == IF found = <<>> THEN <<>> ELSE <<NodeTarget(found[1])>>

\* The catch block: the fallback selector, then the data-blur-id retry.
LocateRelaxed(s, text, fallback) ==
    [s |-> [s EXCEPT !.tree = fallback.tree],
     element |->
         AsNode(IF fallback.selector # <<>> /\ Finds(fallback.tree, fallback.selector[1])
                THEN querySelector(fallback.tree, fallback.selector[1])
                ELSE IF text.form = "data-blur-id"
                THEN querySelector(fallback.tree, text)
                ELSE <<>>)]

LocateByText(s, text) ==
    IF Throws(text) THEN LocateRelaxed(s, text, createFallbackSelector(s.tree, text))
    ELSE [s |-> s, element |-> AsNode(querySelector(s.tree, text))]

LocateElement(s, selector) ==
    IF selector.kind = "id"
    THEN [s |-> s,
          element |-> IF \E sp \in s.textSpans : sp.id = selector.a
                      THEN <<SpanTarget(selector.a)>> ELSE <<>>]
    ELSE LocateByText(s, SelectorText(selector))

restoreTextBlurBySelector(s, selector) ==
    selector.kind = "id" /\ \E sp \in s.textSpans : sp.id = selector.a

\* The first text node that holds the text is wrapped in a span with a new
\* id; the mark keeps the selector it was stored with.
findAndBlurTextContent(s, textContent) ==
    IF Len(textContent) < MinScanLength THEN [s |-> s, found |-> FALSE]
    ELSE IF PlainOccurrences(s, textContent) > 0
    THEN [s |-> [s EXCEPT !.textSpans =
                     @ \cup {[id |-> generateSelectorForTextBlur(s), text |-> textContent]}],
          found |-> TRUE]
    ELSE [s |-> s, found |-> FALSE]

\* One iteration of the forEach of applyExistingBlurs: the state it leaves
\* and whether it called markBlurForCleanup(index).
ApplyLocated(located) ==
    IF located.element = <<>> THEN [s |-> located.s, cleanup |-> TRUE]
    ELSE IF ~canApplyBlurToElement(located.s, located.element[1])
    THEN [s |-> located.s, cleanup |-> FALSE]
    ELSE IF ~HasClass(located.s, located.element[1], "blur-anything-blurred")
    THEN [s |-> applyBlurToElement(located.s, located.element[1]), cleanup |-> FALSE]
    ELSE [s |-> located.s, cleanup |-> FALSE]

Scanned(scanned) == [s |-> scanned.s, cleanup |-> ~scanned.found]

RestoreOne(s, blurData) ==
    IF blurData.type = "element"
    THEN ApplyLocated(LocateElement(s, blurData.selector))
    ELSE IF blurData.type = "area"
    THEN IF ~areValidCoordinates(blurData.coords) THEN [s |-> s, cleanup |-> FALSE]
         ELSE IF \E i \in 1..Len(s.areaEls) :
                     /\ s.areaEls[i][1] = blurData.coords[1]
                     /\ s.areaEls[i][2] = blurData.coords[2]
         THEN [s |-> s, cleanup |-> FALSE]
         ELSE [s |-> recreateBlurArea(s, blurData), cleanup |-> FALSE]
    ELSE IF restoreTextBlurBySelector(s, blurData.selector)
    THEN [s |-> s, cleanup |-> FALSE]
    ELSE Scanned(findAndBlurTextContent(s, blurData.text))

markBlurForCleanup(blursToCleanup, index) == blursToCleanup \cup {index}

\* The queued indices are spliced out from the highest down, and the store
\* is saved when a mark was removed.
Splice(seq, indices) ==
    LET Select(k) == CHOOSE i \in 1..Len(seq) :
                         /\ i \notin indices
                         /\ Cardinality({j \in 1..i : j \notin indices}) = k
    IN  [k \in 1..Cardinality({i \in 1..Len(seq) : i \notin indices}) |-> seq[Select(k)]]

\* A flush that splices from the lowest queued index up.
RECURSIVE SpliceUpward(_, _)
SpliceUpward(seq, indices) ==
    IF indices = {} THEN seq
    ELSE LET index == CHOOSE i \in indices : \A j \in indices : i <= j
         IN  SpliceUpward(IF index <= Len(seq) THEN RemoveAt(seq, index) ELSE seq,
                          indices \ {index})

performBlurCleanup_Upward(s, blursToCleanup) ==
    IF \E index \in blursToCleanup : index <= Len(s.blurredElements)
    THEN saveBlurData([s EXCEPT !.blurredElements = SpliceUpward(@, blursToCleanup)])
    ELSE s

\* this.blursToCleanup once performBlurCleanup has returned.
QueueAfterCleanup(blursToCleanup) == IF blursToCleanup = {} THEN blursToCleanup ELSE {}

performBlurCleanup(s, blursToCleanup) ==
    IF \E index \in blursToCleanup : index <= Len(s.blurredElements)
    THEN saveBlurData([s EXCEPT !.blurredElements = Splice(@, blursToCleanup)])
    ELSE s

RECURSIVE RestoreFrom(_, _, _)
RECURSIVE RestoreNext(_, _, _)
RestoreFrom(s, index, blursToCleanup) ==
    IF index > Len(s.blurredElements) THEN performBlurCleanup(s, blursToCleanup)
    ELSE RestoreNext(RestoreOne(s, s.blurredElements[index]), index, blursToCleanup)

RestoreNext(one, index, blursToCleanup) ==
    RestoreFrom(one.s, index + 1,
                IF one.cleanup THEN markBlurForCleanup(blursToCleanup, index)
                ELSE blursToCleanup)

applyExistingBlurs(s) ==
    IF Len(s.blurredElements) = 0 THEN s ELSE RestoreFrom(s, 1, {})

\* The forEach of applyExistingBlurs alone: the state and the queue it
\* leaves to performBlurCleanup.
RECURSIVE ScanFrom(_, _, _)
RECURSIVE ScanNext(_, _, _)
ScanFrom(s, index, blursToCleanup) ==
    IF index > Len(s.blurredElements) THEN [s |-> s, blursToCleanup |-> blursToCleanup]
    ELSE ScanNext(RestoreOne(s, s.blurredElements[index]), index, blursToCleanup)

ScanNext(one, index, blursToCleanup) ==
    ScanFrom(one.s, index + 1,
             IF one.cleanup THEN markBlurForCleanup(blursToCleanup, index)
             ELSE blursToCleanup)

attemptImmediateBlurRestoration(s) ==
    IF Len(loadBlurDataLocally(s)) > 0
    THEN applyExistingBlurs(
             preInjectBlurCSS([s EXCEPT !.blurredElements = loadBlurDataLocally(s)],
                              loadBlurDataLocally(s)))
    ELSE s

\* The local cache replaces what was loaded when it holds more marks; the
\* message it then sends carries no URL.
syncLocalDataIfNeeded(s) ==
    IF /\ s.localData # <<>>
       /\ s.localData[1].url = s.href
       /\ Len(s.localData[1].blurData) > Len(s.blurredElements)
    THEN bgSaveBlurData([s EXCEPT !.blurredElements = s.localData[1].blurData],
                        <<>>, s.localData[1].blurData)
    ELSE s

loadBlurData(s) ==
    IF isAuthenticated(s) /\ Len(syncLoadBlurData(s, s.href)) > 0
    THEN [s EXCEPT !.blurredElements = syncLoadBlurData(s, s.href)]
    ELSE syncLocalDataIfNeeded([s EXCEPT !.blurredElements = bgGetBlurData(s, s.href)])

\* init() from loadBlurData to its end: the listeners, the toolbar and the
\* first mode, then the first scheduled pass.
EnterFirstMode(s) == IF s.isEnabled THEN setExclusiveMode(s, "blur") ELSE s

initAfterSettings(s) ==
    [applyExistingBlurs(updateDisabledState(EnterFirstMode(loadBlurData(s))))
        EXCEPT !.initPc = "scheduled"]

\* The setTimeout(..., 100) callback of scheduleBlurRestoration.
delayedRestoration(s) == [applyExistingBlurs(s) EXCEPT !.initPc = "ready"]

(***************************************************************************)
(* The state once init() has run on a page with nothing persisted:         *)
(* loadSettings read isEnabled, the toolbar and the hover indicator exist  *)
(* and are hidden, and an enabled session starts in blur mode.             *)
(***************************************************************************)
Fresh(enabled, tier) ==
    [isEnabled |-> enabled, isBlurMode |-> FALSE, isDrawingMode |-> FALSE,
     isTextSelectionMode |-> FALSE, isEraserMode |-> FALSE, blursHidden |-> FALSE,
     blurredElements |-> <<>>, startCoords |-> <<>>, drawingOverlay |-> <<>>,
     previewsInDocument |-> 0, hoverShown |-> FALSE, toolbarVisible |-> FALSE,
     cursor |-> "", bodyClasses |-> {},
     textListeners |-> [mouseup |-> {}, touchend |-> {}],
     blurredNodes |-> {}, areaEls |-> <<>>, textSpans |-> {},
     localData |-> <<>>, extStore |-> [url \in Urls |-> <<>>],
     firebase |-> [key \in UrlKeys |-> <<>>],
     currentTier |-> tier, blurCount |-> UsedToday,
     currentUser |-> tier = "premium", href |-> "https://site.test/a",
     tree |-> BuiltPage, instantCss |-> {}, initPc |-> "ready", suspended |-> <<>>]

init(enabled, tier) ==
    LET s0 == Fresh(enabled, tier)
        s1 == IF s0.isEnabled THEN setExclusiveMode(s0, "blur") ELSE s0
    IN  updateDisabledState(s1)

InitState(s) ==
    /\ isEnabled = s.isEnabled
    /\ isBlurMode = s.isBlurMode
    /\ isDrawingMode = s.isDrawingMode
    /\ isTextSelectionMode = s.isTextSelectionMode
    /\ isEraserMode = s.isEraserMode
    /\ blursHidden = s.blursHidden
    /\ blurredElements = s.blurredElements
    /\ startCoords = s.startCoords
    /\ drawingOverlay = s.drawingOverlay
    /\ previewsInDocument = s.previewsInDocument
    /\ hoverShown = s.hoverShown
    /\ toolbarVisible = s.toolbarVisible
    /\ cursor = s.cursor
    /\ bodyClasses = s.bodyClasses
    /\ textListeners = s.textListeners
    /\ blurredNodes = s.blurredNodes
    /\ areaEls = s.areaEls
    /\ textSpans = s.textSpans
    /\ localData = s.localData
    /\ extStore = s.extStore
    /\ firebase = s.firebase
    /\ currentTier = s.currentTier
    /\ blurCount = s.blurCount
    /\ currentUser = s.currentUser
    /\ href = s.href
    /\ tree = s.tree
    /\ instantCss = s.instantCss
    /\ suspended = s.suspended
    /\ initPc = s.initPc
    /\ atStart = [localData |-> s.localData, extStore |-> s.extStore[s.href],
                  firebase |-> s.firebase[getUrlKey(s.href)],
                  currentUser |-> s.currentUser, tree |-> s.tree]
    /\ lastOp = [name |-> "init", arg |-> <<>>, changed |-> TRUE]

Init == \E enabled \in BOOLEAN : InitState(init(enabled, "free"))

\* The caps that keep the model finite.
WithinBounds(s) ==
    /\ Len(s.blurredElements) <= MaxMarks
    /\ Len(s.areaEls) <= MaxMarks
    /\ Cardinality(s.textListeners.mouseup) <= MaxListeners
    /\ s.previewsInDocument <= MaxPreviews
    /\ s.blurCount <= MaxCounted

Step(s, name, arg) == WithinBounds(s) /\ Commit(s, name, arg)

(***************************************************************************)
(* Events.                                                                 *)
(***************************************************************************)
ToolbarModeClick ==
    \E mode \in {"blur", "draw", "text", "eraser"} :
        /\ toolbarVisible
        /\ Step(toolbarModeClick(State, mode), "toolbarModeClick", <<mode>>)

ToolbarCloseClick ==
    /\ toolbarVisible
    /\ Step(toolbarCloseClick(State), "toolbarCloseClick", <<>>)

KeyDown ==
    \E key \in {"Ctrl+Shift+B", "Escape"} :
        Step(handleKeyDown(State, key), "handleKeyDown", <<key>>)

MsgSettingsUpdated ==
    \E enabled \in BOOLEAN :
        Step(handleMessage(State, "settingsUpdated", enabled), "settingsUpdated", <<enabled>>)

MsgToggleExtension ==
    Step(handleMessage(State, "toggleExtension", FALSE), "toggleExtension", <<>>)

MsgToggleDrawMode ==
    Step(handleMessage(State, "toggleDrawMode", FALSE), "toggleDrawMode", <<>>)

MsgToggleEraserMode ==
    Step(handleMessage(State, "toggleEraserMode", FALSE), "toggleEraserMode", <<>>)

MsgShowToolbar ==
    Step(handleMessage(State, "showToolbar", FALSE), "showToolbar", <<>>)

MsgHideToolbar ==
    Step(handleMessage(State, "hideToolbar", FALSE), "hideToolbar", <<>>)

MsgClearAllBlurs ==
    Step(handleMessage(State, "clearAllBlurs", FALSE), "clearAllBlurs", <<>>)

MsgToggleAllBlurs ==
    Step(handleMessage(State, "toggleAllBlurs", FALSE), "toggleAllBlurs", <<>>)

MsgSaveBlurData ==
    Step(handleMessage(State, "saveBlurData", TRUE), "saveBlurData", <<>>)

ToolbarSaveClick ==
    /\ toolbarVisible
    /\ Step(saveCurrentBlurs(State), "saveCurrentBlurs", <<>>)

AuthStateChanged ==
    \E user \in BOOLEAN :
        Step(onAuthStateChanged(State, user), "AUTH_STATE_CHANGED", <<user>>)

MouseOver == Step(handleMouseOver(State), "handleMouseOver", <<>>)

MouseOut == Step(handleMouseOut(State), "handleMouseOut", <<>>)

MouseDownAt(p) == Step(handleMouseDown(State, p), "handleMouseDown", <<>>)

MouseMoveAt(p) == Step(handleMouseMove(State, p), "handleMouseMove", <<>>)

MouseUpAt(p) == Step(handleMouseUp(State, p), "handleMouseUp", p)

\* Clicks on page nodes, on text-blur spans and on area overlays.  A click
\* that would hand an area overlay to blurElement is left out.
ClickTargets ==
    {NodeTarget(n) : n \in PageNodes}
    \cup {SpanTarget(sp.id) : sp \in textSpans}
    \cup {AreaTarget(i) : i \in {j \in 1..Len(areaEls) : isEraserMode \/ ~isBlurMode}}

Click ==
    \E target \in ClickTargets :
        Step(handleClick(State, target), "handleClick", target)

\* A text selection ends with a mouseup, which reaches handleTextSelection
\* through the listeners attached to the document.
TextSelect ==
    \E selectedText \in PageTexts :
        /\ textListeners.mouseup # {}
        /\ Step(handleTextSelection(State, selectedText), "handleTextSelection", <<selectedText>>)

(***************************************************************************)
(* Spec: the interaction mode machine.  The pointer only makes drags       *)
(* shorter than the minimum region size.                                   *)
(***************************************************************************)
MouseDown == \E p \in ModePoints : MouseDownAt(p)

MouseMove == \E p \in ModePoints : MouseMoveAt(p)

MouseUp == \E p \in ModePoints : MouseUpAt(p)

Next ==
    \/ ToolbarModeClick
    \/ ToolbarCloseClick
    \/ KeyDown
    \/ MsgSettingsUpdated
    \/ MsgToggleExtension
    \/ MsgToggleDrawMode
    \/ MsgToggleEraserMode
    \/ MsgShowToolbar
    \/ MsgHideToolbar
    \/ MouseOver
    \/ MouseOut
    \/ MouseDown
    \/ MouseMove
    \/ MouseUp

Spec == Init /\ [][Next]_vars

(***************************************************************************)
(* SpecDraw: the region draw sub-protocol, with drags at, below and above  *)
(* the size limits.                                                        *)
(***************************************************************************)
DrawMouseDown == \E p \in AnchorPoints : MouseDownAt(p)

DrawMouseMove == \E p \in DrawPoints : MouseMoveAt(p)

DrawMouseUp == \E p \in DrawPoints : MouseUpAt(p)

ToolbarDrawClick ==
    /\ toolbarVisible
    /\ Step(toolbarModeClick(State, "draw"), "toolbarModeClick", <<"draw">>)

NextDraw ==
    \/ MsgShowToolbar
    \/ ToolbarDrawClick
    \/ DrawMouseDown
    \/ DrawMouseMove
    \/ DrawMouseUp
    \/ MsgClearAllBlurs
    \/ AuthStateChanged

SpecDraw == Init /\ [][NextDraw]_vars

(***************************************************************************)
(* SpecMarks: the three mark gestures, the eraser and persistence.         *)
(***************************************************************************)
MarkMouseDown == \E p \in AnchorPoints : MouseDownAt(p)

MarkMouseMove == \E p \in MarkPoints : MouseMoveAt(p)

MarkMouseUp == \E p \in MarkPoints : MouseUpAt(p)

NextMarks ==
    \/ MsgShowToolbar
    \/ ToolbarModeClick
    \/ Click
    \/ TextSelect
    \/ MarkMouseDown
    \/ MarkMouseMove
    \/ MarkMouseUp
    \/ MsgClearAllBlurs
    \/ MsgToggleAllBlurs
    \/ MsgSaveBlurData
    \/ ToolbarSaveClick

SpecMarks == Init /\ [][NextMarks]_vars

(***************************************************************************)
(* SpecRestore: a session from its construction on a reloaded page to the  *)
(* end of the delayed restoration pass.  The marks were persisted by an    *)
(* earlier session on BuiltPage; the page it finds may have changed.       *)
(***************************************************************************)
StoredMarks ==
    {ElementMark(PathSelector(1)), ElementMark(CssSelector(1)),
     AreaMark(0, 0, 10, 10),
     TextMark(IdSelector(1), "alpha"), TextMark(IdSelector(2), "beta"),
     TextMark(IdSelector(3), "x")}

StoredLists == UNION {[1..n -> StoredMarks] : n \in 0..MaxMarks}

\* What another device of the same user left in the cloud for the page.
OtherList == <<AreaMark(10, 10, 10, 10)>>

ReloadedPages == {BuiltPage, PartialPage, PrunedPage, RewrappedPage}

\* The object as its constructor finds it: field initializers, nothing
\* restored yet, settings not read.
Constructed(tier, page) ==
    [Fresh(FALSE, tier) EXCEPT !.tree = page, !.initPc = "start"]

InitRestore ==
    \E marks \in StoredLists,
       cached \in BOOLEAN, synced \in {"none", "same", "other"},
       user \in BOOLEAN, page \in ReloadedPages :
        LET s0 == Constructed(IF user THEN "premium" ELSE "free", page)
            s1 == [s0 EXCEPT
                      !.localData = IF cached
                                    THEN <<[url |-> s0.href, blurData |-> marks]>>
                                    ELSE <<>>,
                      !.extStore[s0.href] = marks,
                      !.firebase[getUrlKey(s0.href)] =
                          CASE synced = "none" -> <<>>
                            [] synced = "same" -> <<marks>>
                            [] synced = "other" -> <<OtherList>>]
        IN  InitState(s1)

ImmediateRestoration ==
    /\ initPc = "start"
    /\ Step([attemptImmediateBlurRestoration(State) EXCEPT !.initPc = "settings"],
            "attemptImmediateBlurRestoration", <<>>)

InitAfterSettings ==
    \E enabled \in BOOLEAN :
        /\ initPc = "settings"
        /\ Step(initAfterSettings([State EXCEPT !.isEnabled = enabled]),
                "initAfterSettings", <<>>)

DelayedRestoration ==
    /\ initPc = "scheduled"
    /\ Step(delayedRestoration(State), "delayedRestoration", <<>>)

\* The page builds its content while the session starts.
TreeBuilt ==
    /\ tree = PartialPage
    /\ Step([State EXCEPT !.tree = BuiltPage], "treeBuilt", <<>>)

NextRestore ==
    \/ ImmediateRestoration
    \/ InitAfterSettings
    \/ DelayedRestoration
    \/ TreeBuilt

SpecRestore == InitRestore /\ [][NextRestore]_vars

(***************************************************************************)
(* generateSelector on its own: the documents are <html><body> with three  *)
(* elements below the body, in document order, and the function is applied *)
(* once to an element of the document.                                     *)
(***************************************************************************)
DrawnTags == {"div", "p"}
DrawnClasses == {<<>>, <<"note">>}
DrawnIds == {"", "x", "2col"}

\* The parents of the second and the third element that keep the sequence
\* in document order.
DrawnParents == {<<9, 9>>, <<9, 2>>, <<1, 9>>, <<1, 1>>, <<1, 2>>}

DrawnElements(key, parent) ==
    {Element(key, tag, classes, id, parent) :
        tag \in DrawnTags, classes \in DrawnClasses, id \in DrawnIds}

DrawnPages ==
    UNION {{<<HtmlEl, BodyEl, e1, e2, e3>> :
               e1 \in DrawnElements(1, 9),
               e2 \in DrawnElements(2, parents[1]),
               e3 \in DrawnElements(3, parents[2])} : parents \in DrawnParents}

InitSelectors ==
    \E page \in DrawnPages : InitState([Fresh(TRUE, "free") EXCEPT !.tree = page])

Generated(key, generated) ==
    Step([State EXCEPT !.tree = generated.tree], "generateSelector",
         [key |-> key, selector |-> generated.selector])

GenerateSelector ==
    \E key \in Keys(tree) :
        /\ lastOp.name = "init"
        /\ Generated(key, generateSelectorIn(tree, key))

NextSelectors == GenerateSelector

SpecSelectors == InitSelectors /\ [][NextSelectors]_vars

(***************************************************************************)
(* The Persistence Gateway on its own.  A session holds a list of marks at *)
(* the point where a handler calls saveBlurData; the three tiers hold what *)
(* earlier sessions of the two pages left there.  Opening a page starts a  *)
(* new content script, whose Mark Store is what loadBlurData reads.        *)
(***************************************************************************)
LeftInCache == {<<>>} \cup {<<[url |-> url, blurData |-> OtherList]>> : url \in Urls}
LeftInStore == [Urls -> {<<>>, OtherList}]
LeftInCloud == [UrlKeys -> {<<>>, <<OtherList>>}]

InitPersist ==
    \E marks \in StoredLists, url \in Urls, user \in BOOLEAN,
       cache \in LeftInCache, store \in LeftInStore, cloud \in LeftInCloud :
        InitState([Fresh(TRUE, IF user THEN "premium" ELSE "free") EXCEPT
                      !.href = url, !.blurredElements = marks,
                      !.localData = cache, !.extStore = store, !.firebase = cloud])

SaveBlurData == Step(saveBlurData(State), "saveBlurData", <<>>)

\* A new content script on the page at url: its fields are the initial
\* ones, the tiers are those the last session left.
Reopened(s, url) ==
    [Fresh(s.isEnabled, s.currentTier) EXCEPT
        !.href = url, !.localData = s.localData,
        !.extStore = s.extStore, !.firebase = s.firebase]

OpenPage ==
    \E url \in Urls :
        Step(loadBlurData(Reopened(State, url)), "loadBlurData",
             [url |-> url, from |-> href, after |-> lastOp.name])

NextPersist ==
    \/ SaveBlurData
    \/ OpenPage

SpecPersist == InitPersist /\ [][NextPersist]_vars

(***************************************************************************)
(* The Persistence Gateway when a tier fails.  faults names the tiers      *)
(* whose calls throw during one handler: localStorage, Firestore, the      *)
(* message to the background worker.  Every call sits in its own try block *)
(* whose catch block is empty.                                             *)
(***************************************************************************)
Faults == [local : BOOLEAN, cloud : BOOLEAN, store : BOOLEAN]

saveBlurDataLocallyUnder(s, faults) ==
    IF faults.local THEN s ELSE saveBlurDataLocally(s)

loadBlurDataLocallyUnder(s, faults) ==
    IF faults.local THEN <<>> ELSE loadBlurDataLocally(s)

syncSaveUnder(s, faults) ==
    IF isAuthenticated(s) /\ ~faults.cloud
    THEN syncSaveBlurData(s, s.href, s.blurredElements)
    ELSE s

\* saveBlurData whose Firestore failure is not caught: the extension store
\* is not reached and the promise rejects.
saveBlurData_CloudFailureAborts(s, faults) ==
    IF isAuthenticated(s) /\ faults.cloud
    THEN [s |-> saveBlurDataLocallyUnder(s, faults), rejected |-> TRUE]
    ELSE [s |-> bgSaveBlurData(
                    syncSaveUnder(saveBlurDataLocallyUnder(s, faults), faults),
                    IF faults.store THEN <<>> ELSE <<s.href>>, s.blurredElements),
          rejected |-> FALSE]

\* saveBlurData(): the state it leaves and whether its promise rejects.
saveBlurDataUnder(s, faults) ==
    [s |-> IF faults.store
           THEN syncSaveUnder(saveBlurDataLocallyUnder(s, faults), faults)
           ELSE bgSaveBlurData(
                    syncSaveUnder(saveBlurDataLocallyUnder(s, faults), faults),
                    <<s.href>>, s.blurredElements),
     rejected |-> FALSE]

\* SyncService.loadBlurData catches its own errors and returns [].
syncLoadUnder(s, faults) ==
    IF faults.cloud THEN <<>> ELSE syncLoadBlurData(s, s.href)

syncLocalDataIfNeededUnder(s, faults) ==
    IF faults.local THEN s ELSE syncLocalDataIfNeeded(s)

\* loadBlurData with its three try blocks.
loadBlurData_NoCacheFallback(s, faults) ==
    IF isAuthenticated(s) /\ Len(syncLoadUnder(s, faults)) > 0
    THEN [s EXCEPT !.blurredElements = syncLoadUnder(s, faults)]
    ELSE IF faults.store
    THEN [s EXCEPT !.blurredElements = <<>>]
    ELSE syncLocalDataIfNeededUnder(
             [s EXCEPT !.blurredElements = bgGetBlurData(s, s.href)], faults)

loadBlurDataUnder(s, faults) ==
    IF isAuthenticated(s) /\ Len(syncLoadUnder(s, faults)) > 0
    THEN [s EXCEPT !.blurredElements = syncLoadUnder(s, faults)]
    ELSE IF faults.store
    THEN [s EXCEPT !.blurredElements = loadBlurDataLocallyUnder(s, faults)]
    ELSE syncLocalDataIfNeededUnder(
             [s EXCEPT !.blurredElements = bgGetBlurData(s, s.href)], faults)

\* saveCurrentBlurs: the state it leaves and the toolbar notification.  The
\* promise of saveBlurData is dropped, so the catch block is reached only
\* by a synchronous throw, which an async function never makes.
saveCurrentBlursUnder(s, faults) ==
    IF ~checkFeatureAccess(s, "save") THEN [s |-> s, reported |-> "none"]
    ELSE IF Len(s.blurredElements) = 0 THEN [s |-> s, reported |-> "No blurs to save"]
    ELSE [s |-> saveBlurDataUnder(s, faults).s, reported |-> "Saved"]

\* The saveBlurData message: the state it leaves and the response sent.
msgSaveBlurDataUnder(s, forceSync, faults) ==
    IF forceSync
    THEN [s |-> saveBlurDataUnder(s, faults).s, reported |-> "success"]
    ELSE [s |-> s, reported |-> "error"]

\* A session on one page with a list of marks in memory, and what earlier
\* sessions left in the tiers for the page; one handler runs, then the page
\* may be opened again.
InitFaults ==
    \E marks \in StoredLists, user \in BOOLEAN,
       cached \in BOOLEAN, stored \in BOOLEAN, synced \in BOOLEAN :
        InitState([Fresh(TRUE, IF user THEN "premium" ELSE "free") EXCEPT
                      !.blurredElements = marks,
                      !.localData = IF cached
                                    THEN <<[url |-> "https://site.test/a", blurData |-> OtherList]>>
                                    ELSE <<>>,
                      !.extStore["https://site.test/a"] =
                          IF stored THEN OtherList ELSE <<>>,
                      !.firebase[getUrlKey("https://site.test/a")] =
                          IF synced THEN <<OtherList>> ELSE <<>>])

\* No handler has run yet.
Untouched == lastOp.name \in {"init", "showToolbar"}

Reported(done, name, faults) ==
    /\ Untouched
    /\ Step(done.s, name, [faults |-> faults, reported |-> done.reported])

ToolbarSaveUnder ==
    \E faults \in Faults :
        /\ toolbarVisible
        /\ Reported(saveCurrentBlursUnder(State, faults), "saveCurrentBlurs", faults)

MsgSaveUnder ==
    \E faults \in Faults, forceSync \in BOOLEAN :
        Reported(msgSaveBlurDataUnder(State, forceSync, faults), "saveBlurData", faults)

Saved(done, faults) ==
    /\ Untouched
    /\ Step(done.s, "saveBlurDataUnder", [faults |-> faults, rejected |-> done.rejected])

\* saveBlurData as the handlers that change the store call it.
SaveUnder == \E faults \in Faults : Saved(saveBlurDataUnder(State, faults), faults)

OpenPageUnder ==
    \E faults \in Faults :
        /\ lastOp.name # "loadBlurDataUnder"
        /\ Step(loadBlurDataUnder(Reopened(State, href), faults), "loadBlurDataUnder",
                [faults |-> faults])

ShowToolbarFirst == lastOp.name = "init" /\ MsgShowToolbar

NextFaults ==
    \/ ShowToolbarFirst
    \/ ToolbarSaveUnder
    \/ MsgSaveUnder
    \/ SaveUnder
    \/ OpenPageUnder

SpecFaults == InitFaults /\ [][NextFaults]_vars

(***************************************************************************)
(* Async click handlers.  handleClick awaits blurElement, which stops at   *)
(* `await freemiumService.canAddBlur()` and, once the element is blurred,  *)
(* at `await freemiumService.incrementDailyBlurCount()`; the mark is       *)
(* pushed after the second await.  A frame records where a handler stopped *)
(* and the locals it resumes with.                                         *)
(***************************************************************************)
Frame(at, target, selector, since) ==
    [handler |-> "blurElement", at |-> at, target |-> target,
     selector |-> selector, since |-> since]

Suspend(s, frame) == [s EXCEPT !.suspended = Append(@, frame)]

Resumed(s, i) == [s EXCEPT !.suspended = RemoveAt(@, i)]

\* handleClick up to the first await of blurElement.
handleClickBegin(s, target) ==
    IF ~s.isEnabled THEN s
    ELSE LET isBlurredElement ==
                 \/ HasClass(s, target, "blur-anything-blurred")
                 \/ HasClass(s, target, "blur-anything-text-blur")
                 \/ isElementBlurredByCSS(s, target)
         IN  IF isBlurredElement /\ (s.isEraserMode \/ ~s.isEnabled)
             THEN eraseBlur(s, target)
             ELSE IF isBlurredElement /\ s.isBlurMode THEN s
             ELSE IF ~s.isBlurMode /\ ~s.isEraserMode THEN s
             ELSE IF ~s.toolbarVisible THEN s
             ELSE IF s.isEraserMode THEN eraseBlur(s, target)
             ELSE IF ~canUseBlurType(s, "click") THEN s
             ELSE Suspend(s, Frame("canAddBlur", target, <<>>, s.initPc))

\* blurElement from the first await to the second.
blurElementAfterCanAddBlur(s, frame, selector) ==
    IF ~canAddBlur(s) THEN s
    ELSE IF \E i \in 1..Len(s.blurredElements) : s.blurredElements[i].selector = selector
    THEN unblurElement(s, frame.target, selector)
    ELSE Suspend(applyBlurToElement(s, frame.target),
                 Frame("incrementDailyBlurCount", frame.target, <<selector>>, frame.since))

\* blurElement after the second await, without the push.
blurElementAfterIncrement_NoPush(s, frame) == incrementDailyBlurCount(s)

\* blurElement after the second await.
blurElementAfterIncrement(s, frame) ==
    [incrementDailyBlurCount(s) EXCEPT
        !.blurredElements = Append(@, ElementMark(frame.selector[1]))]

resumeBlurElement(s, frame) ==
    IF frame.at = "canAddBlur"
    THEN blurElementAfterCanAddBlur(s, frame, generateSelector(s, frame.target))
    ELSE blurElementAfterIncrement(s, frame)

\* The session has run init() on the built page up to the first scheduled
\* pass; the delayed pass is still to come.
AsyncMarks == {ElementMark(PathSelector(n)) : n \in PageNodes}

AsyncLists ==
    {marks \in UNION {[1..n -> AsyncMarks] : n \in 0..MaxMarks} :
        \A i, j \in 1..Len(marks) : marks[i] = marks[j] => i = j}

Scheduled(s) ==
    initAfterSettings([attemptImmediateBlurRestoration(s) EXCEPT !.isEnabled = TRUE])

InitAsync ==
    \E marks \in AsyncLists, user \in BOOLEAN :
        InitState(Scheduled(
            [Constructed(IF user THEN "premium" ELSE "free", BuiltPage) EXCEPT
                !.localData = <<[url |-> "https://site.test/a", blurData |-> marks]>>,
                !.extStore["https://site.test/a"] = marks]))

AsyncModeClick ==
    \E mode \in {"blur", "eraser"} :
        /\ toolbarVisible
        /\ Step(toolbarModeClick(State, mode), "toolbarModeClick", <<mode>>)

\* A click on an element of the built page while no handler is stopped.
ClickBegins ==
    \E n \in PageNodes :
        /\ suspended = <<>>
        /\ tree = BuiltPage
        /\ Step(handleClickBegin(State, NodeTarget(n)), "handleClick", NodeTarget(n))

ResumeBlurElement ==
    \E i \in 1..Len(suspended) :
        /\ suspended[i].at = "canAddBlur" => tree = BuiltPage
        /\ Step(resumeBlurElement(Resumed(State, i), suspended[i]),
                "blurElement", suspended[i])

\* The page removes its first note between the two scheduled passes.
NodeRemoved ==
    /\ tree = BuiltPage
    /\ initPc = "scheduled"
    /\ \A i \in 1..Len(suspended) : suspended[i].at # "canAddBlur"
    /\ Step([State EXCEPT !.tree = PrunedPage], "nodeRemoved", <<>>)

NextAsync ==
    \/ MsgShowToolbar
    \/ AsyncModeClick
    \/ ClickBegins
    \/ ResumeBlurElement
    \/ NodeRemoved
    \/ DelayedRestoration

SpecAsync == InitAsync /\ [][NextAsync]_vars

(***************************************************************************)
(* Several click handlers in flight.  The event loop delivers the next     *)
(* click while an earlier blurElement is still stopped at one of its       *)
(* awaits, and resumes the stopped handlers in any order.  The awaits stop *)
(* a handler across events for a free-tier user, whose canAddBlur and      *)
(* incrementDailyBlurCount read browser.storage; for a premium user both   *)
(* return before their first await.                                        *)
(***************************************************************************)
InitRace == InitAsync /\ currentTier = "free"

MaxInFlight == 2       \* click handlers stopped at an await at one time

\* A click on an element of the built page, whatever is stopped.
RaceClickBegins ==
    \E n \in PageNodes :
        /\ Len(suspended) < MaxInFlight
        /\ Step(handleClickBegin(State, NodeTarget(n)), "handleClick", NodeTarget(n))

NextRace ==
    \/ MsgShowToolbar
    \/ AsyncModeClick
    \/ RaceClickBegins
    \/ ResumeBlurElement

SpecRace == InitRace /\ [][NextRace]_vars

(***************************************************************************)
(* The context menu.  The background worker sends blurSelectedText when    *)
(* the user picks "Blur selected text"; handleMessage calls                *)
(* blurSelectedText, which wraps the selection in a span without an id and *)
(* pushes no mark.  selectedText is "" for a collapsed selection.          *)
(***************************************************************************)
blurSelectedText(s, selectedText) ==
    IF selectedText = "" THEN s
    ELSE [s EXCEPT !.textSpans = @ \cup {[id |-> 0, text |-> selectedText]}]

MsgBlurSelectedText ==
    \E selectedText \in PageTexts \cup {""} :
        Step(blurSelectedText(State, selectedText), "blurSelectedText", <<selectedText>>)

NodeClick ==
    \E n \in PageNodes :
        Step(handleClick(State, NodeTarget(n)), "handleClick", NodeTarget(n))

RegionMouseDown == MouseDownAt(<<0, 0>>)

RegionMouseUp == MouseUpAt(<<10, 10>>)

NextMenu ==
    \/ MsgToggleExtension
    \/ MsgShowToolbar
    \/ ToolbarModeClick
    \/ KeyDown
    \/ NodeClick
    \/ TextSelect
    \/ RegionMouseDown
    \/ RegionMouseUp
    \/ MsgBlurSelectedText

SpecMenu == Init /\ [][NextMenu]_vars

(***************************************************************************)
(* Async release handlers.  For a free-tier user handleMouseUp stops at    *)
(* `await freemiumService.canAddBlur()`, which reads browser.storage, and  *)
(* inside createBlurArea at `await freemiumService.incrementDailyBlurCount *)
(* ()`; the preview is removed and startCoords is cleared after both.      *)
(* Presses, moves and key presses are delivered in between.                *)
(***************************************************************************)
MaxOverlays == 2       \* preview overlays attached to the document at one time

ReleaseFrame(s, at, p) ==
    [handler |-> "handleMouseUp", at |-> at, target |-> p,
     selector |-> <<>>, since |-> s.initPc]

\* handleMouseUp up to its first await.
handleMouseUpBegin(s, p) ==
    IF ~s.isEnabled \/ ~s.isDrawingMode \/ s.startCoords = <<>> \/ s.drawingOverlay = <<>>
    THEN s
    ELSE LET width == Abs(p[1] - s.startCoords[1])
             height == Abs(p[2] - s.startCoords[2])
         IN  IF width < MinRegionSize \/ height < MinRegionSize THEN DiscardPreview(s)
             ELSE IF ExceedsMaxRectangle(s, width, height) THEN DiscardPreview(s)
             ELSE Suspend(s, ReleaseFrame(s, "canAddBlur", p))

\* createBlurArea up to its await.
createBlurAreaBegin(s) ==
    LET rect == BoundingRect(s.drawingOverlay[1])
        s1 == [s EXCEPT !.areaEls = Append(@, rect)]
    IN  [s1 EXCEPT !.blurredElements =
                       Append(@, AreaMark(rect[1], rect[2], rect[3], rect[4]))]

\* handleMouseUp from its first await to the await inside createBlurArea;
\* createBlurArea returns at once when the overlay or startCoords is gone.
handleMouseUpAfterCanAddBlur(s, frame) ==
    IF ~canAddBlur(s) THEN DiscardPreview(s)
    ELSE IF s.drawingOverlay = <<>> \/ s.startCoords = <<>> THEN DiscardPreview(s)
    ELSE Suspend(createBlurAreaBegin(s),
                 ReleaseFrame(s, "incrementDailyBlurCount", frame.target))

\* The rest of createBlurArea, then the end of handleMouseUp.
handleMouseUpAfterCreateBlurArea(s) == DiscardPreview(incrementDailyBlurCount(s))

resumeMouseUp(s, frame) ==
    IF frame.at = "canAddBlur" THEN handleMouseUpAfterCanAddBlur(s, frame)
    ELSE handleMouseUpAfterCreateBlurArea(s)

PreviewStep(s, name, arg) ==
    /\ Len(s.blurredElements) <= MaxMarks
    /\ s.previewsInDocument <= MaxOverlays
    /\ Commit(s, name, arg)

InitPreview == InitState(init(TRUE, "free"))

PreviewKeyDown ==
    \E key \in {"Ctrl+Shift+B", "Escape"} :
        PreviewStep(handleKeyDown(State, key), "handleKeyDown", <<key>>)

\* The button goes down when it is up: no draw has begun, or the last event
\* was the release.
PreviewPress ==
    /\ lastOp.name = "handleMouseUp" \/ startCoords = <<>>
    /\ PreviewStep(handleMouseDown(State, <<0, 0>>), "handleMouseDown", <<>>)

PreviewMove == PreviewStep(handleMouseMove(State, <<10, 10>>), "handleMouseMove", <<>>)

PreviewReleaseBegins ==
    \E p \in {<<0, 0>>, <<10, 10>>} :
        /\ Len(suspended) < MaxInFlight
        /\ PreviewStep(handleMouseUpBegin(State, p), "handleMouseUp", p)

PreviewReleaseResumes ==
    \E i \in 1..Len(suspended) :
        PreviewStep(resumeMouseUp(Resumed(State, i), suspended[i]),
                    "resumeMouseUp", suspended[i])

NextPreview ==
    \/ PreviewKeyDown
    \/ PreviewPress
    \/ PreviewMove
    \/ PreviewReleaseBegins
    \/ PreviewReleaseResumes

SpecPreview == InitPreview /\ [][NextPreview]_vars

(***************************************************************************)
(* The background worker.  Its onMessage listener is async: the            *)
(* saveBlurData and clearAllBlurs cases await browser.storage.sync.get of  *)
(* the whole blurredElements map, change one key of the object they got,   *)
(* and await browser.storage.sync.set of the whole object.  Messages of    *)
(* several tabs are handled while earlier ones are stopped at the get.     *)
(***************************************************************************)
WorkerLists == {<<>>, <<AreaMark(0, 0, 10, 10)>>, <<ElementMark(PathSelector(1))>>}

\* The handler up to its storage.sync.get; read is the map the get returns.
bgHandlerBegin(s, action, url, blurData) ==
    Suspend(s, [handler |-> action, at |-> "storage.sync.get", target |-> url,
                selector |-> <<>>, since |-> s.initPc,
                blurData |-> blurData, read |-> s.extStore])

\* The handler after the get: the key is changed in the object that was
\* read, and the whole object is written.
bgHandlerEnd(s, frame) ==
    [s EXCEPT !.extStore =
         [frame.read EXCEPT ![frame.target] =
              IF frame.handler = "saveBlurData" THEN frame.blurData ELSE <<>>]]

InitWorker == InitState(init(TRUE, "free"))

WorkerSaveBegins ==
    \E url \in Urls, blurData \in WorkerLists :
        /\ Len(suspended) < MaxInFlight
        /\ Step(bgHandlerBegin(State, "saveBlurData", url, blurData),
                "bgSaveBlurData", [url |-> url, blurData |-> blurData])

WorkerClearBegins ==
    \E url \in Urls :
        /\ Len(suspended) < MaxInFlight
        /\ Step(bgHandlerBegin(State, "clearAllBlurs", url, <<>>),
                "bgClearAllBlurs", [url |-> url, blurData |-> <<>>])

WorkerHandlerEnds ==
    \E i \in 1..Len(suspended) :
        Step(bgHandlerEnd(Resumed(State, i), suspended[i]),
             "storage.sync.set", suspended[i])

NextWorker ==
    \/ WorkerSaveBegins
    \/ WorkerClearBegins
    \/ WorkerHandlerEnds

SpecWorker == InitWorker /\ [][NextWorker]_vars

(***************************************************************************)
(* The daily count of a free-tier user.  blurCount is dailyUsage.blurCount *)
(* in browser.storage.local.  canAddBlur and incrementDailyBlurCount both  *)
(* await initializeDailyUsage, which replaces this.dailyUsage by what       *)
(* storage.local.get returns; incrementDailyBlurCount then adds one to the *)
(* object it got and awaits saveDailyUsage, which writes the object back.  *)
(* The mark is pushed when the write has been answered.                    *)
(***************************************************************************)
\* incrementDailyBlurCount up to saveDailyUsage: read is the count the get
\* returned.
incrementAfterGet(s, frame) ==
    Suspend(s, [frame EXCEPT !.at = "saveDailyUsage"] @@ [read |-> s.blurCount])

\* storage.local.set of the object that was read, with one added; then the
\* end of blurElement.
blurElementAfterSave(s, frame) ==
    [s EXCEPT !.blurCount = frame.read + 1,
              !.blurredElements = Append(@, ElementMark(frame.selector[1]))]

resumeCounted(s, frame) ==
    CASE frame.at = "canAddBlur"
             -> blurElementAfterCanAddBlur(s, frame, generateSelector(s, frame.target))
      [] frame.at = "incrementDailyBlurCount" -> incrementAfterGet(s, frame)
      [] OTHER -> blurElementAfterSave(s, frame)

QuotaStep(s, name, arg) ==
    /\ Len(s.blurredElements) <= MaxMarks
    /\ s.blurCount <= MaxCounted
    /\ Commit(s, name, arg)

\* A free-tier session in blur mode with its toolbar shown, after eight or
\* nine blurs were counted today.
InitQuota ==
    \E used \in {UsedToday, UsedToday + 1} :
        InitState([msgShowToolbar(init(TRUE, "free")) EXCEPT !.blurCount = used])

QuotaClickBegins ==
    \E n \in PageNodes :
        /\ Len(suspended) < MaxInFlight
        /\ QuotaStep(handleClickBegin(State, NodeTarget(n)), "handleClick", NodeTarget(n))

QuotaResumes ==
    \E i \in 1..Len(suspended) :
        QuotaStep(resumeCounted(Resumed(State, i), suspended[i]),
                  "blurElement", suspended[i])

NextQuota ==
    \/ QuotaClickBegins
    \/ QuotaResumes

SpecQuota == InitQuota /\ [][NextQuota]_vars

(***************************************************************************)
(* Inline styles.  In SpecEffects the elements of the tree carry the       *)
(* inline style and the data attributes that the effects are made of:      *)
(* filter and backdrop are lists of filter functions (<<>> is the empty    *)
(* string), originalFilter and the other data-original-* attributes are    *)
(* <<>> when absent and << value >> when present.                          *)
(***************************************************************************)
blurIntensity == 10        \* private blurIntensity = 10
MaxWrappers == 1           \* blur-anything-wrapper containers put around one element

BlurFn(px) == [fn |-> "blur", px |-> px]
NoneFn == [fn |-> "none", px |-> 0]
GrayscaleFn == [fn |-> "grayscale", px |-> 1]

IsBlurFn(f) == f.fn = "blur"

\* filter.replace(/blur\([^)]*\)/g, "").trim()
StripBlur(filter) ==
    LET Other(f) == ~IsBlurFn(f)
    IN  SelectSeq(filter, Other)

\* The px of the blur function of a filter list, 0 when it has none.
Intensity(backdrop) ==
    IF \E i \in 1..Len(backdrop) : IsBlurFn(backdrop[i])
    THEN backdrop[CHOOSE i \in 1..Len(backdrop) : IsBlurFn(backdrop[i])].px
    ELSE 0

Unstyled ==
    [filter |-> <<>>, backdrop |-> <<>>, background |-> "", opacity |-> "",
     applied |-> FALSE, coords |-> <<>>,
     originalFilter |-> <<>>, originalBackdrop |-> <<>>,
     originalBackdropFilter |-> <<>>, originalBackgroundColor |-> <<>>]

Styled(e) == e @@ Unstyled

HasCls(e, class) == \E i \in 1..Len(e.classes) : e.classes[i] = class

AddClass(classes, class) ==
    IF \E i \in 1..Len(classes) : classes[i] = class THEN classes
    ELSE Append(classes, class)

RemoveClass(classes, class) ==
    LET Other(c) == c # class
    IN  SelectSeq(classes, Other)

\* getAttribute(name) is a non-empty string: of a filter list, of a colour
Truthy(attr) == attr # <<>> /\ attr[1] # <<>>
TruthyText(attr) == attr # <<>> /\ attr[1] # ""

ApplyMethods == 1..4       \* the first of applyBlurWithFallbacks' methods not to throw

applyBlurWithWrapper(t, key) ==
    LET i == IndexOf(t, key)
        wrapperKey == 1 + CHOOSE k \in Keys(t) : \A other \in Keys(t) : other <= k
        wrapper == [Styled(Element(wrapperKey, "div", <<"blur-anything-wrapper">>, "",
                                   t[i].parent))
                        EXCEPT !.backdrop = <<BlurFn(blurIntensity)>>]
    IN  SubSeq(t, 1, i - 1) \o <<wrapper, [t[i] EXCEPT !.parent = wrapperKey]>>
            \o SubSeq(t, i + 1, Len(t))

applyBlurWithFallbacks(t, key, method) ==
    IF method = 4 THEN applyBlurWithWrapper(t, key)
    ELSE [i \in 1..Len(t) |->
             IF t[i].key # key THEN t[i]
             ELSE IF method = 3 THEN [t[i] EXCEPT !.filter = <<BlurFn(blurIntensity)>>]
             ELSE [t[i] EXCEPT !.filter = StripBlur(@) \o <<BlurFn(blurIntensity)>>]]

\* applyBlurToElement on an element that canApplyBlurToElement accepts.
applyBlurToElementIn(t, key, method) ==
    LET t1 == applyBlurWithFallbacks(t, key, method)
    IN  [i \in 1..Len(t1) |->
            IF t1[i].key # key THEN t1[i]
            ELSE [t1[i] EXCEPT !.classes = AddClass(@, "blur-anything-blurred"),
                               !.applied = TRUE]]

removeBlurFromElementIn(t, key) ==
    [i \in 1..Len(t) |->
        IF t[i].key # key THEN t[i]
        ELSE [t[i] EXCEPT
                 !.classes = RemoveClass(RemoveClass(@, "blur-anything-blurred"),
                                         "blur-anything-text-blur"),
                 !.applied = FALSE,
                 !.blurId = 0,
                 !.filter = <<NoneFn>>,
                 !.backdrop = <<NoneFn>>,
                 !.opacity = "1"]]

createProperBlurOverlay(e, intensity) ==
    [e EXCEPT !.backdrop = <<BlurFn(intensity)>>, !.background = "rgba(0, 0, 0, 0.1)"]

\* createBlurArea's overlay: cssText first, then createProperBlurOverlay.
createBlurAreaIn(t, key, rect) ==
    Append(t, createProperBlurOverlay(
                  [Styled(Element(key, "div", <<"blur-anything-area">>, "", BodyEl.key))
                      EXCEPT !.coords = rect],
                  IF blurIntensity < 1 THEN 1 ELSE blurIntensity))

\* recreateBlurArea's overlay: createProperBlurOverlay first, then the
\* assignment to cssText, which replaces every inline declaration.
recreateBlurAreaIn(t, key, coords) ==
    Append(t, [Styled(Element(key, "div", <<"blur-anything-area">>, "", BodyEl.key))
                  EXCEPT !.coords = coords])

\* The area branch of applyExistingBlurs on an overlay that exists: the
\* delayed pass gives the overlay of the first pass its blur.
ExistingAreaIn(t, key) ==
    [i \in 1..Len(t) |->
        IF t[i].key = key /\ Intensity(t[i].backdrop) = 0
        THEN createProperBlurOverlay(t[i], blurIntensity)
        ELSE t[i]]

\* The span handleTextSelection puts around the selected text.
TextSpanIn(t, key, parent) ==
    Append(t, [Styled(Element(key, "span", <<"blur-anything-text-blur">>, "", parent))
                  EXCEPT !.filter = <<BlurFn(blurIntensity)>>])

\* The forEach of toggleAllBlurs over .blur-anything-blurred, and the one
\* over .blur-anything-text-blur.
ToggleFilter(e, hidden) ==
    IF hidden
    THEN [e EXCEPT !.originalFilter = <<e.filter>>, !.filter = StripBlur(@),
                   !.opacity = "0.7"]
    ELSE IF Truthy(e.originalFilter)
    THEN [e EXCEPT !.filter = e.originalFilter[1], !.originalFilter = <<>>,
                   !.opacity = "1"]
    ELSE [e EXCEPT !.opacity = "1"]

\* The forEach of toggleAllBlurs over .blur-anything-area.
ToggleBackdrop(e, hidden) ==
    IF hidden
    THEN [e EXCEPT !.originalBackdrop =
                       IF e.backdrop # <<>> /\ e.backdrop # <<NoneFn>>
                       THEN <<e.backdrop>> ELSE <<<<BlurFn(blurIntensity)>>>>,
                   !.backdrop = <<NoneFn>>,
                   !.background = "transparent"]
    ELSE [e EXCEPT !.backdrop = IF Truthy(e.originalBackdrop) THEN e.originalBackdrop[1]
                                ELSE <<BlurFn(blurIntensity)>>,
                   !.filter = <<>>,
                   !.background = "rgba(0, 0, 0, 0.05)",
                   !.originalBackdrop = <<>>]

ToggleElement(e, hidden) ==
    LET e1 == IF HasCls(e, "blur-anything-blurred") THEN ToggleFilter(e, hidden) ELSE e
        e2 == IF HasCls(e1, "blur-anything-area") THEN ToggleBackdrop(e1, hidden) ELSE e1
    IN  IF HasCls(e2, "blur-anything-text-blur") THEN ToggleFilter(e2, hidden) ELSE e2

toggleAllBlursIn(s) ==
    LET hidden == ~s.blursHidden
        s1 == toggleAllBlurs(s)
        s2 == IF hidden THEN [s1 EXCEPT !.instantCss = {}]
              ELSE preInjectBlurCSS(s1, s1.blurredElements)
    IN  [s2 EXCEPT !.tree = [i \in 1..Len(@) |-> ToggleElement(@[i], hidden)]]

hideAllBlursOf(e) ==
    LET e1 == IF (HasCls(e, "blur-anything-blurred") \/ HasCls(e, "blur-anything-text-blur"))
                  /\ e.filter # <<>>
              THEN [e EXCEPT !.originalFilter = <<e.filter>>, !.filter = <<>>]
              ELSE e
    IN  IF HasCls(e1, "blur-anything-area") /\ e1.backdrop # <<>>
        THEN [e1 EXCEPT !.originalBackdropFilter = <<e1.backdrop>>,
                        !.backdrop = <<>>,
                        !.originalBackgroundColor =
                            IF e1.background # "" THEN <<e1.background>> ELSE @,
                        !.background = IF e1.background # "" THEN "transparent" ELSE @]
        ELSE e1

restoreAllBlursOf(e) ==
    LET e1 == IF (HasCls(e, "blur-anything-blurred") \/ HasCls(e, "blur-anything-text-blur"))
                  /\ Truthy(e.originalFilter)
              THEN [e EXCEPT !.filter = e.originalFilter[1], !.originalFilter = <<>>]
              ELSE e
        e2 == IF HasCls(e1, "blur-anything-area") /\ Truthy(e1.originalBackdropFilter)
              THEN [e1 EXCEPT !.backdrop = e1.originalBackdropFilter[1],
                              !.originalBackdropFilter = <<>>]
              ELSE e1
    IN  IF HasCls(e2, "blur-anything-area") /\ TruthyText(e2.originalBackgroundColor)
        THEN [e2 EXCEPT !.background = e2.originalBackgroundColor[1],
                        !.originalBackgroundColor = <<>>]
        ELSE e2

\* updateDisabledState with what hideAllBlurs and restoreAllBlurs do to the
\* inline styles.
updateDisabledStateIn(s) ==
    [s EXCEPT !.tree = [i \in 1..Len(@) |->
                           IF s.isEnabled THEN restoreAllBlursOf(@[i])
                           ELSE hideAllBlursOf(@[i])]]

msgToggleExtensionIn(s) == updateDisabledStateIn(msgToggleExtension(s))

\* The page: one paragraph, which its author may have given a filter, and
\* the effects a session has put on it.
EffectKeys == [node |-> 1, drawn |-> 5, restored |-> 6, span |-> 7]
EffectNode == EffectKeys.node
DrawnRect == <<50, 50, 100, 100>>
RestoredRect == <<0, 0, 20, 20>>

EffectsPage(authored) ==
    <<Styled(HtmlEl), Styled(BodyEl),
      [Styled(Element(EffectNode, "p", <<"note">>, "", BodyEl.key))
          EXCEPT !.filter = IF authored THEN <<GrayscaleFn>> ELSE <<>>]>>

\* The session has drawn one region, restored another in its two passes and
\* blurred a selection of the paragraph's text.
InitEffects ==
    \E authored \in BOOLEAN :
        InitState([Fresh(TRUE, "free") EXCEPT
                      !.tree = TextSpanIn(
                                   ExistingAreaIn(
                                       recreateBlurAreaIn(
                                           createBlurAreaIn(EffectsPage(authored),
                                                            EffectKeys.drawn, DrawnRect),
                                           EffectKeys.restored, RestoredRect),
                                       EffectKeys.restored),
                                   EffectKeys.span, EffectNode)])

Wrappers(t) == {i \in 1..Len(t) : HasCls(t[i], "blur-anything-wrapper")}

ApplyBlur ==
    \E method \in ApplyMethods :
        /\ Cardinality(Wrappers(tree)) < MaxWrappers \/ method # 4
        /\ Step([State EXCEPT !.tree = applyBlurToElementIn(@, EffectNode, method)],
                "applyBlurToElement", <<method>>)

RemoveBlur ==
    Step([State EXCEPT !.tree = removeBlurFromElementIn(@, EffectNode)],
         "removeBlurFromElement", <<>>)

\* generateSelector's two fallbacks, and createFallbackSelector's last
\* method, leave an attribute on the element.
LocatorTags ==
    \E name \in {"data-blur-id", "data-blur-fallback"} :
        /\ ElementOf(tree, EffectNode).blurId = 0
        /\ ElementOf(tree, EffectNode).fallback = 0
        /\ Step([State EXCEPT !.tree = SetAttr(@, EffectNode, name, NewAttrValue(@))],
                "generateSelector", <<name>>)

ToggleAllBlurs ==
    Step(toggleAllBlursIn(State), "toggleAllBlurs", [before |-> tree])

ToggleExtension ==
    Step(msgToggleExtensionIn(State), "toggleExtension", <<>>)

NextEffects ==
    \/ ApplyBlur
    \/ RemoveBlur
    \/ LocatorTags
    \/ ToggleAllBlurs
    \/ ToggleExtension

SpecEffects == InitEffects /\ [][NextEffects]_vars

(***************************************************************************)
(* Properties of the interaction mode machine.                             *)
(***************************************************************************)
ModeNames == {"blur", "draw", "text", "eraser"}

ActiveModes == {m \in ModeNames : ModeFlag(State, m)}

ActiveModesNext ==
    {m \in ModeNames :
        CASE m = "blur" -> isBlurMode'
          [] m = "draw" -> isDrawingMode'
          [] m = "text" -> isTextSelectionMode'
          [] OTHER -> isEraserMode'}

ModeFlagsUnchanged ==
    /\ isBlurMode' = isBlurMode
    /\ isDrawingMode' = isDrawingMode
    /\ isTextSelectionMode' = isTextSelectionMode
    /\ isEraserMode' = isEraserMode

\* C1: in every reachable state at most one of the four mode flags
\* isBlurMode, isDrawingMode, isTextSelectionMode, isEraserMode is true.
C1_AtMostOneMode == Cardinality(ActiveModes) <= 1

\* C2: whenever isEnabled is false, all four mode flags are false.
C2_DisabledIsInactive == ~isEnabled => ActiveModes = {}

\* The step is a request to enter a mode: a mode button whose mode is not
\* active, toggleDrawMode, toggleEraserMode, showToolbar or Ctrl+Shift+B.
IsModeEntryRequest ==
    \/ /\ lastOp'.name = "toolbarModeClick"
       /\ lastOp'.arg[1] \notin ActiveModes
    \/ lastOp'.name \in {"toggleDrawMode", "toggleEraserMode", "showToolbar"}
    \/ /\ lastOp'.name = "handleKeyDown"
       /\ lastOp'.arg[1] = "Ctrl+Shift+B"

\* C3: while isEnabled is false, every mode-entry request leaves the four
\* mode flags unchanged, and they are all false.
C3_DisabledSuppressesEntry ==
    [][(~isEnabled /\ IsModeEntryRequest)
          => (ModeFlagsUnchanged /\ ActiveModes = {})]_vars

\* The toggle rule for a request for mode m: an active m is left for
\* Inactive, an inactive m becomes the only active mode.
Toggles(m) ==
    IF m \in ActiveModes THEN ActiveModesNext = {} ELSE ActiveModesNext = {m}

IsButtonRequest(m) == lastOp'.name = "toolbarModeClick" /\ lastOp'.arg[1] = m

IsShortcutRequest == lastOp'.name = "handleKeyDown" /\ lastOp'.arg[1] = "Ctrl+Shift+B"

\* C4 as stated: while enabled, every set-mode request for m (a mode
\* button, Ctrl+Shift+B for draw, showToolbar for blur) leaves for Inactive
\* when m is active and makes m the only active mode otherwise.
C4_EveryRequestToggles ==
    [][isEnabled =>
          /\ \A m \in ModeNames : IsButtonRequest(m) => Toggles(m)
          /\ IsShortcutRequest => Toggles("draw")
          /\ lastOp'.name = "showToolbar" => Toggles("blur")]_vars

\* C4, amended: while enabled, a mode button for m and Ctrl+Shift+B for
\* draw leave for Inactive when m is active and make m the only active mode
\* otherwise; showToolbar always makes blur the only active mode.
C4_ToggleSemantics ==
    [][isEnabled =>
          /\ \A m \in ModeNames : IsButtonRequest(m) => Toggles(m)
          /\ IsShortcutRequest => Toggles("draw")
          /\ lastOp'.name = "showToolbar" => ActiveModesNext = {"blur"}]_vars

\* A mode button was clicked on its own active mode and left the enabled
\* machine Inactive.
C4_Witness ==
    /\ lastOp.name = "toolbarModeClick"
    /\ isEnabled
    /\ ActiveModes = {}

\* The step is one of the transitions into Inactive.
IsInactiveTransition ==
    /\ ActiveModesNext = {}
    /\ \/ lastOp'.name \in {"toolbarModeClick", "toolbarCloseClick", "hideToolbar"}
       \/ lastOp'.name = "toggleExtension" /\ ~isEnabled'
       \/ lastOp'.name = "handleKeyDown" /\ ActiveModes # {}

\* C5: every transition into Inactive, from any state, leaves no draw
\* preview in the document, a null draw anchor, a hidden hover indicator
\* and the default cursor.
C5_InactiveLeavesNoTransientUI ==
    [][IsInactiveTransition
          => /\ drawingOverlay' = <<>>
             /\ previewsInDocument' = 0
             /\ startCoords' = <<>>
             /\ ~hoverShown'
             /\ cursor' = "default"]_vars

\* C6: the text-selection listeners are attached exactly when the mode is
\* text, one pair at most however often the mode was entered.
C6_ListenersOnlyInTextMode ==
    /\ (textListeners.mouseup # {}) <=> isTextSelectionMode
    /\ (textListeners.touchend # {}) <=> isTextSelectionMode
    /\ Cardinality(textListeners.mouseup) <= 1
    /\ Cardinality(textListeners.touchend) <= 1

(***************************************************************************)
(* Properties of the region draw sub-protocol.                             *)
(***************************************************************************)
DrawInProgress ==
    /\ isEnabled
    /\ isDrawingMode
    /\ startCoords # <<>>
    /\ drawingOverlay # <<>>

ReleaseWidth == Abs(lastOp'.arg[1] - startCoords[1])

ReleaseHeight == Abs(lastOp'.arg[2] - startCoords[2])

\* C7: in draw mode, with canAddBlur answering true and the rectangle within
\* the tier's maximum size, a release 10 wide and 10 high appends one area
\* mark to the store; a release 9 wide or 9 high appends none, removes the
\* preview overlay and clears the anchor.
C7_MinimumSizeBoundary ==
    [][(lastOp'.name = "handleMouseUp" /\ DrawInProgress)
          => /\ ( /\ ReleaseWidth = 10
                  /\ ReleaseHeight = 10
                  /\ canAddBlur(State)
                  /\ ~ExceedsMaxRectangle(State, 10, 10) )
                => /\ Len(blurredElements') = Len(blurredElements) + 1
                   /\ SubSeq(blurredElements', 1, Len(blurredElements)) = blurredElements
                   /\ blurredElements'[Len(blurredElements')].type = "area"
             /\ (ReleaseWidth = 9 \/ ReleaseHeight = 9)
                => /\ blurredElements' = blurredElements
                   /\ drawingOverlay' = <<>>
                   /\ previewsInDocument' = previewsInDocument - 1
                   /\ startCoords' = <<>>]_vars

\* A release 10 wide and 10 high has just committed the first area mark of
\* the session.
C7_Witness ==
    /\ lastOp.name = "handleMouseUp"
    /\ lastOp.arg = <<10, 10>>
    /\ lastOp.changed
    /\ Len(blurredElements) = 1
    /\ blurredElements[1].type = "area"
    /\ blurCount = UsedToday + 1
    /\ startCoords = <<>>

(***************************************************************************)
(* Properties of mark creation and erasing.                                *)
(***************************************************************************)
\* The step is the creating gesture of a mark kind: a click outside eraser
\* mode, a region release, a text selection.
IsCreatingGesture(blurType) ==
    CASE blurType = "click" -> lastOp'.name = "handleClick" /\ ~isEraserMode
      [] blurType = "rectangle" -> lastOp'.name = "handleMouseUp"
      [] OTHER -> lastOp'.name = "handleTextSelection"

EffectsUnchanged ==
    /\ blurredNodes' = blurredNodes
    /\ areaEls' = areaEls
    /\ textSpans' = textSpans

Marks(seq) == {seq[i] : i \in 1..Len(seq)}

Persisted ==
    Marks(extStore[href]) \cup UNION {Marks(localData[i].blurData) : i \in 1..Len(localData)}

\* The step is a click handled in eraser mode.
IsEraseClick == lastOp'.name = "handleClick" /\ isEnabled /\ isEraserMode

\* C9: after an erase click, no mark that the click removed from the store
\* is left in the local cache or in the extension store.
C9_ErasePersistsRemoval ==
    [][IsEraseClick
          => \A mark \in Marks(blurredElements) \ Marks(blurredElements') :
                 mark \notin Persisted']_vars

\* The clicked target carries an applied effect.
HasEffect(target) ==
    \/ target.kind = "node" /\ target.ref \in blurredNodes
    \/ target.kind \in {"area", "span"}

\* C10: an erase click on a target with an effect removes one mark and
\* leaves every other mark in the store, and an erase click on a target
\* without effect leaves the store unchanged.
C10_EraseRemovesExactlyOne ==
    [][IsEraseClick
          => IF HasEffect(lastOp'.arg)
             THEN \E i \in 1..Len(blurredElements) :
                      blurredElements' = RemoveAt(blurredElements, i)
             ELSE blurredElements' = blurredElements]_vars

(***************************************************************************)
(* Properties of the Restoration Coordinator.                              *)
(***************************************************************************)
IsPassStep ==
    lastOp'.name \in {"attemptImmediateBlurRestoration", "initAfterSettings",
                      "delayedRestoration"}

\* The marks the restoration pass of this step went over.
PassInput ==
    CASE lastOp'.name = "attemptImmediateBlurRestoration" -> loadBlurDataLocally(State)
      [] lastOp'.name = "initAfterSettings" -> loadBlurData(State).blurredElements
      [] lastOp'.name = "delayedRestoration" -> blurredElements
      [] OTHER -> <<>>

\* A point mark with the locator generateSelector wrote for its node.
IsPointMark(mark) == mark.type = "element" /\ mark.selector.kind = "path"

\* The pass blurred the node the mark's locator designates.
AppliedFor(mark) ==
    /\ ~Throws(SelectorText(mark.selector))
    /\ \E n \in blurredNodes' \ blurredNodes :
           querySelector(tree, SelectorText(mark.selector)) = <<n>>

\* C11: after a restoration pass, a point mark whose node is not in the
\* tree is in neither the Mark Store nor the persisted copies, and the pass
\* has applied no effect for it.
C11_DeadMarkCleanedUp ==
    [][IsPassStep
          => \A mark \in Marks(PassInput) :
                 IsPointMark(mark) /\ mark.selector.a \notin Keys(tree)
                     => /\ mark \notin Marks(blurredElements')
                        /\ mark \notin Persisted'
                        /\ ~AppliedFor(mark)]_vars

\* What the pass does with such a mark depends on its locator alone: when
\* it matches no node the mark is removed from the Mark Store and from the
\* persisted copies and nothing is blurred; when it matches another node
\* the mark stays and that node is blurred.
DeadMarkFollowsLocator ==
    [][IsPassStep
          => \A mark \in Marks(PassInput) :
                 IsPointMark(mark) /\ mark.selector.a \notin Keys(tree)
                     => IF querySelector(tree, SelectorText(mark.selector)) = <<>>
                        THEN /\ mark \notin Marks(blurredElements')
                             /\ mark \notin Persisted'
                             /\ ~AppliedFor(mark)
                        ELSE /\ mark \in Marks(blurredElements')
                             /\ querySelector(tree, SelectorText(mark.selector))[1]
                                    \in blurredNodes']_vars

\* The mark was persisted for the page when the session started: the
\* extension store holds it, and so does the cloud document if there is one.
PersistedAtStart(mark) ==
    /\ mark \in Marks(atStart.extStore)
    /\ atStart.firebase # <<>> => mark \in Marks(atStart.firebase[1])

\* C12: a persisted point mark whose node was not in the tree when the
\* session started and is in the tree at the delayed pass has its node
\* blurred by that pass and is still in the Mark Store after it.
C12_LateBuiltNodeRestored ==
    [][lastOp'.name = "delayedRestoration"
          => \A mark \in StoredMarks :
                 /\ IsPointMark(mark)
                 /\ PersistedAtStart(mark)
                 /\ mark.selector.a \notin Keys(atStart.tree)
                 /\ querySelector(tree, SelectorText(mark.selector))
                        = <<mark.selector.a>>
                 => /\ mark.selector.a \in blurredNodes'
                    /\ mark \in Marks(blurredElements')]_vars

\* C13: a restoration pass wraps an occurrence of the text of every text
\* mark whose locator resolves to nothing while the text still stands in a
\* text node outside the text-blur spans, and keeps the mark.
C13_TextFoundByScan ==
    [][IsPassStep
          => \A mark \in Marks(PassInput) :
                 /\ mark.type = "text"
                 /\ ~restoreTextBlurBySelector(State, mark.selector)
                 /\ PlainOccurrences(State, mark.text) > 0
                 => /\ \E sp \in textSpans' \ textSpans : sp.text = mark.text
                    /\ mark \in Marks(blurredElements')]_vars

\* How many marks of the Mark Store carry the text, or the rectangle.
StoredWithText(text) ==
    Cardinality({i \in 1..Len(blurredElements) :
                    blurredElements[i].type = "text" /\ blurredElements[i].text = text})

StoredWithCoords(coords) ==
    Cardinality({i \in 1..Len(blurredElements) :
                    blurredElements[i].type = "area" /\ blurredElements[i].coords = coords})

\* C14: whatever passes of the session have run, a mark of the Mark Store
\* has at most one effect in the document: there are no more text-blur
\* spans around a mark's text than marks with that text, and no more
\* overlays at a rectangle than marks with that rectangle.
C14_OneEffectPerMark ==
    initPc # "start"
        => \A mark \in Marks(blurredElements) :
               /\ mark.type = "text"
                     => Cardinality({sp \in textSpans : sp.text = mark.text})
                            <= StoredWithText(mark.text)
               /\ mark.type = "area"
                     => Cardinality({i \in 1..Len(areaEls) : areaEls[i] = mark.coords})
                            <= StoredWithCoords(mark.coords)

\* The node the mark was made on is in the tree with the tag and the
\* classes it had on the page the user marked.
SameNodeStands(mark) ==
    /\ mark.selector.a \in Keys(tree)
    /\ ElementOf(tree, mark.selector.a).tag = ElementOf(BuiltPage, mark.selector.a).tag
    /\ ElementOf(tree, mark.selector.a).classes
           = ElementOf(BuiltPage, mark.selector.a).classes

\* C15: a restoration pass over a point mark whose stored locator matches
\* no node, while the marked node stands in the tree with the same tag and
\* classes, blurs that node and keeps the mark instead of queueing it for
\* cleanup.
C15_RelocatedNodeFound ==
    [][IsPassStep
          => \A mark \in Marks(PassInput) :
                 /\ IsPointMark(mark)
                 /\ querySelector(tree, SelectorText(mark.selector)) = <<>>
                 /\ SameNodeStands(mark)
                 => /\ mark.selector.a \in blurredNodes'
                    /\ mark \in Marks(blurredElements')]_vars

\* What createFallbackSelector returned designates exactly one element of
\* the tree it left, and that element has the tag the stored selector ends
\* with.
DesignatesOne(matches, text) ==
    /\ Len(matches) = 1
    /\ matches[1].tag = text.segs[Len(text.segs)].tag

AcceptedRelaxation(fallback, text) ==
    fallback.selector # <<>>
        => DesignatesOne(querySelectorAll(fallback.tree, fallback.selector[1]), text)

\* C16: when a restoration pass meets an element mark whose stored selector
\* querySelector rejects, the selector createFallbackSelector returns for
\* it matches exactly one element, and one the stored selector describes.
C16_RelaxationUnambiguous ==
    [][IsPassStep
          => \A mark \in Marks(PassInput) :
                 mark.type = "element" /\ Throws(SelectorText(mark.selector))
                     => AcceptedRelaxation(
                            createFallbackSelector(tree, SelectorText(mark.selector)),
                            SelectorText(mark.selector))]_vars

\* The session started signed in, with marks for the page in the cloud.
CloudHeldMarks ==
    /\ atStart.currentUser
    /\ atStart.firebase # <<>>
    /\ Len(atStart.firebase[1]) > 0

\* C20: in a session that starts signed in with a non-empty cloud list for
\* the page, the immediate restoration leaves the cloud document as it was,
\* and loadBlurData fills the Mark Store with that list, whatever the local
\* cache and the extension store hold.
C20_CloudListWins ==
    [][CloudHeldMarks
          => /\ lastOp'.name = "attemptImmediateBlurRestoration"
                   => firebase'[getUrlKey(href)] = atStart.firebase
             /\ lastOp'.name = "initAfterSettings"
                   => /\ firebase[getUrlKey(href)] = atStart.firebase
                      /\ PassInput = atStart.firebase[1]]_vars

(***************************************************************************)
(* Properties of the Locator Synthesizer.                                  *)
(***************************************************************************)
\* C17: the selector generateSelector returns for an element is one that
\* querySelector accepts and resolves to that element on the document as
\* generateSelector left it; an id selector is returned only for an element
\* that the id selector resolves to.
C17_SelectorResolvesToElement ==
    lastOp.name = "generateSelector"
        => /\ ~Throws(lastOp.arg.selector)
           /\ querySelector(tree, lastOp.arg.selector) = <<lastOp.arg.key>>

CachedFor(cache, url) ==
    loadBlurDataLocally([State EXCEPT !.localData = cache, !.href = url])

\* C19: the local cache is keyed by the page: after saveBlurData has
\* written the cache for one page, loadBlurDataLocally returns the saved
\* marks on that page and, on the other page, what it returned before.
C19_LocalCacheKeyedByUrl ==
    [][lastOp'.name = "saveBlurData"
          => \A url \in Urls :
                 CachedFor(localData', url)
                     = IF url = href THEN blurredElements
                       ELSE CachedFor(localData, url)]_vars

\* C21: when a new session loads without a non-empty cloud list and the
\* local cache of the page holds more marks than the extension store
\* returned, the Mark Store takes the marks of the cache and the extension
\* store's entry for the page equals them once the load has completed.
C21_LocalCacheResynced ==
    [][/\ lastOp'.name = "loadBlurData"
       /\ ~(currentUser /\ Len(syncLoadBlurData(State, href')) > 0)
       /\ Len(CachedFor(localData, href')) > Len(bgGetBlurData(State, href'))
       => /\ blurredElements' = CachedFor(localData, href')
          /\ extStore'[href'] = CachedFor(localData, href')]_vars

\* The marks the cloud document of the page holds.
CloudMarks ==
    IF firebase[getUrlKey(href)] = <<>> THEN {} ELSE Marks(firebase[getUrlKey(href)][1])

\* C22: no mark enters the extension store or the cloud document of the
\* page by a step other than an explicit save (the toolbar's save button or
\* the saveBlurData message with forceSync): not by a gesture, not by
\* erasing another mark.
C22_NoSilentPersist ==
    [][lastOp'.name \notin {"saveBlurData", "saveCurrentBlurs"}
          => /\ Marks(extStore'[href]) \subseteq Marks(extStore[href])
             /\ CloudMarks' \subseteq CloudMarks]_vars

\* Every tier the save writes to holds the Mark Store.
WrittenToTiers ==
    /\ loadBlurDataLocally(State) = blurredElements
    /\ bgGetBlurData(State, href) = blurredElements
    /\ currentUser => firebase[getUrlKey(href)] = <<blurredElements>>

\* C23: an explicit save (the toolbar's save button, or the saveBlurData
\* message with forceSync) that tells its caller it succeeded has written
\* the Mark Store to the tiers; when a write failed the caller is told of a
\* failure.
C23_SaveReportsOutcome ==
    /\ lastOp.name \in {"saveCurrentBlurs", "saveBlurData"}
    /\ lastOp.arg.reported \in {"Saved", "success"}
    => WrittenToTiers

\* C24: when the Firestore write fails during saveBlurData, the local cache
\* and the extension store hold the Mark Store afterwards, the Mark Store is
\* unchanged and the promise does not reject; when the Firestore read fails
\* during loadBlurData, the Mark Store is filled from the extension store
\* (with the resync from a longer local cache), and from the local cache
\* when the extension store fails too.
C24_CloudFailureFallsBack ==
    [][/\ lastOp'.name = "saveBlurDataUnder"
          /\ currentUser
          /\ lastOp'.arg.faults = [local |-> FALSE, cloud |-> TRUE, store |-> FALSE]
          => /\ loadBlurDataLocally(State)' = blurredElements
             /\ extStore'[href] = blurredElements
             /\ blurredElements' = blurredElements
             /\ firebase' = firebase
             /\ ~lastOp'.arg.rejected
       /\ lastOp'.name = "loadBlurDataUnder"
          /\ currentUser
          /\ lastOp'.arg.faults.cloud /\ ~lastOp'.arg.faults.local
          => blurredElements'
                 = IF lastOp'.arg.faults.store THEN loadBlurDataLocally(State)
                   ELSE IF Len(loadBlurDataLocally(State)) > Len(bgGetBlurData(State, href))
                   THEN loadBlurDataLocally(State)
                   ELSE bgGetBlurData(State, href)]_vars

\* A signed-in session whose Firestore write failed has its two marks in
\* the local cache and in the extension store, and the cloud document is
\* the one an earlier session left.
C24_Witness ==
    /\ lastOp.name = "saveBlurDataUnder"
    /\ lastOp.arg.faults = [local |-> FALSE, cloud |-> TRUE, store |-> FALSE]
    /\ currentUser
    /\ Len(blurredElements) = 2
    /\ extStore[href] = blurredElements
    /\ loadBlurDataLocally(State) = blurredElements
    /\ firebase[getUrlKey(href)] = <<OtherList>>


(***************************************************************************)
(* Gestures suspended at an await while a restoration pass runs.           *)
(***************************************************************************)
Occurrences(marks, mark) == Cardinality({i \in 1..Len(marks) : marks[i] = mark})

PushResumed == lastOp.name = "blurElement" /\ lastOp.arg.at = "incrementDailyBlurCount"

\* C25: a click handler stopped at an await while a restoration pass and its
\* cleanup flush run is neither lost nor duplicated: the pass leaves the
\* stopped handler alone, brings back no mark that a gesture removed and
\* doubles none, and the resumed handler leaves the mark it adds in the store
\* exactly once.  (eraseBlur and unblurElement remove their mark without an
\* await before the removal.)
C25_SuspendedGestureKept ==
    [][/\ lastOp'.name = "delayedRestoration"
          => /\ suspended' = suspended
             /\ Marks(blurredElements') \subseteq Marks(blurredElements)
             /\ Len(blurredElements') <= Len(blurredElements)
       /\ PushResumed'
          => Occurrences(blurredElements', ElementMark(lastOp'.arg.selector[1])) = 1]_vars

\* The click on the second note stopped before the delayed pass, the pass
\* flushed the first note's mark, and the resumed click added its own.
C25_Witness ==
    /\ PushResumed
    /\ lastOp.arg.since = "scheduled"
    /\ initPc = "ready"
    /\ tree = PrunedPage
    /\ atStart.extStore = <<ElementMark(PathSelector(1))>>
    /\ ~isEraserMode
    /\ Occurrences(blurredElements, ElementMark(lastOp.arg.selector[1])) = 1



(***************************************************************************)
(* Inline styles of the effects.                                           *)
(***************************************************************************)
OriginalAttributes(e) ==
    <<e.originalFilter, e.originalBackdrop, e.originalBackdropFilter,
      e.originalBackgroundColor>>

SameEffect(e, before) ==
    /\ HasCls(e, "blur-anything-area")
           => e.coords = before.coords /\ Intensity(e.backdrop) = Intensity(before.backdrop)
    /\ HasCls(e, "blur-anything-blurred") \/ HasCls(e, "blur-anything-text-blur")
           => e.filter = before.filter
    /\ OriginalAttributes(e) = OriginalAttributes(before)

\* C26: toggleAllBlurs called twice in a row, from the shown state, is the
\* identity on the effects: blursHidden is false again, every region overlay
\* has the coordinates and the blur intensity it had, every point and text
\* effect has the filter it had, and no data-original-* attribute is left
\* that was not there before.
C26_ToggleTwiceIsIdentity ==
    [][/\ lastOp.name = "toggleAllBlurs"
       /\ lastOp'.name = "toggleAllBlurs"
       /\ blursHidden
       => /\ ~blursHidden'
          /\ \A i \in 1..Len(tree') : SameEffect(tree'[i], lastOp.arg.before[i])]_vars

\* C27: removeBlurFromElement after any number of applyBlurToElement calls,
\* whichever method applied the effect, leaves the target without blur,
\* without the blur-anything-blurred class, without the data-blur-applied,
\* data-blur-id and data-blur-fallback attributes, and outside any
\* blur-anything-wrapper container.
C27_RemoveLeavesNoArtifact ==
    [][lastOp'.name = "removeBlurFromElement"
       => LET e == ElementOf(tree', EffectNode)
          IN  /\ Intensity(e.filter) = 0
              /\ ~HasCls(e, "blur-anything-blurred")
              /\ ~e.applied
              /\ e.blurId = 0
              /\ e.fallback = 0
              /\ Wrappers(tree') = {}]_vars



\* C28: with the extension enabled and the toolbar visible, a click on an
\* element that a point mark blurs removes the blur and removes the mark from
\* the store, in blur mode as in eraser mode.
C28_ClickUnblurs ==
    [][/\ lastOp'.name = "handleClick"
       /\ lastOp'.arg.kind = "node"
       /\ isEnabled /\ toolbarVisible
       /\ isBlurMode \/ isEraserMode
       /\ lastOp'.arg.ref \in blurredNodes
       /\ ElementMark(generateSelector(State, lastOp'.arg)) \in Marks(blurredElements)
       => /\ lastOp'.arg.ref \notin blurredNodes'
          /\ ElementMark(generateSelector(State, lastOp'.arg)) \notin Marks(blurredElements')]_vars



\* C29: every region mark that a draw gesture appends has x >= 0, y >= 0,
\* width > 0 and height > 0, and its width and height are those the
\* minimum-size test of the release accepted, whatever the sequence of
\* press, move and release events, a release without a move before it
\* included.
C29_RegionAsReleased ==
    [][/\ lastOp'.name = "handleMouseUp"
       /\ Len(blurredElements') = Len(blurredElements) + 1
       => LET coords == blurredElements'[Len(blurredElements')].coords
          IN  /\ areValidCoordinates(coords)
              /\ coords[3] = Abs(lastOp'.arg[1] - startCoords[1])
              /\ coords[4] = Abs(lastOp'.arg[2] - startCoords[2])]_vars



(***************************************************************************)
(* The cleanup queue of a restoration pass.                                *)
(***************************************************************************)
\* The marks of a list whose index is not in a set, in their order.
RECURSIVE Without(_, _)
Without(seq, indices) ==
    IF seq = <<>> THEN <<>>
    ELSE Without(SubSeq(seq, 1, Len(seq) - 1), indices)
             \o (IF Len(seq) \in indices THEN <<>> ELSE <<seq[Len(seq)]>>)

\* The session as the forEach of the pass of this step finds it.
PassStart ==
    IF lastOp'.name = "delayedRestoration" THEN State
    ELSE preInjectBlurCSS([State EXCEPT !.blurredElements = loadBlurDataLocally(State)],
                          loadBlurDataLocally(State))

PassStep ==
    \/ lastOp'.name = "delayedRestoration"
    \/ lastOp'.name = "attemptImmediateBlurRestoration" /\ Len(loadBlurDataLocally(State)) > 0

Flushed(start, scan) ==
    /\ scan.s.blurredElements = start.blurredElements
    /\ blurredElements' = Without(start.blurredElements, scan.blursToCleanup)
    /\ QueueAfterCleanup(scan.blursToCleanup) = {}
    /\ scan.blursToCleanup = {}
           => extStore' = extStore /\ localData' = localData /\ firebase' = firebase

\* C30: in one restoration pass the scan leaves the store as it found it, the
\* flush at its end removes exactly the marks the scan queued, each queued
\* index designating at the flush the mark it was queued for, the queue is
\* empty after the flush, and nothing is persisted when no mark was removed.
C30_CleanupFlushedOnce ==
    [][PassStep => Flushed(PassStart, ScanFrom(PassStart, 1, {}))]_vars

\* The immediate pass found two cached marks and flushed both.
C30_Witness ==
    /\ lastOp.name = "attemptImmediateBlurRestoration"
    /\ initPc = "settings"
    /\ Len(CachedFor(atStart.localData, href)) = 2
    /\ blurredElements = <<>>
    /\ extStore[href] = <<>>

\* The text marks of the pass of this step whose text a literal-text scan
\* of an earlier pass has wrapped: the span stands in the document when the
\* pass begins, and no span carries the id the mark was stored with.
ScanRestored ==
    {mark \in Marks(PassInput) :
        /\ mark.type = "text"
        /\ ~restoreTextBlurBySelector(State, mark.selector)
        /\ \E sp \in textSpans : sp.text = mark.text}

\* C31: a restoration pass keeps, in the Mark Store and in every persisted
\* copy that held it, each text mark that an earlier pass of the session
\* restored through the literal-text scan and whose span is still in the
\* document.
C31_ScanRestoredMarkKept ==
    [][IsPassStep
          => \A mark \in ScanRestored :
                 /\ mark \in Marks(blurredElements')
                 /\ mark \in Marks(extStore[href]) => mark \in Marks(extStore'[href])
                 /\ mark \in Marks(CachedFor(localData, href))
                        => mark \in Marks(CachedFor(localData', href))]_vars

\* No two entries of the Mark Store are point marks with the same locator.
NoDuplicatePointMark ==
    \A i, j \in 1..Len(blurredElements) :
        /\ blurredElements[i].type = "element"
        /\ blurredElements[i] = blurredElements[j]
        => i = j

\* A node of the page carries the point-mark effect exactly when the store
\* holds the mark of its locator.
EffectIffMark ==
    \A n \in PageNodes :
        n \in blurredNodes
            <=> ElementMark(generateSelector(State, NodeTarget(n)))
                    \in Marks(blurredElements)

\* C32: the Mark Store never holds two point marks with one locator, and
\* when no click handler is stopped at an await a node of the page carries
\* the point-mark effect exactly when the store holds the mark of its locator.
C32_OneMarkPerBlurredNode ==
    /\ NoDuplicatePointMark
    /\ suspended = <<>> => EffectIffMark

\* C33: after the click on the toolbar's save button, a new content script
\* on the same page loads exactly the marks of the Mark Store, the empty
\* store included.
C33_SavedEqualsMarkStore ==
    lastOp.name = "saveCurrentBlurs"
        => loadBlurData(Reopened(State, href)).blurredElements = blurredElements

\* C34: in a disabled session the restoration passes that init schedules
\* after updateDisabledState leave every effect off: a pass blurs no node,
\* creates no region overlay and wraps no text that hideAllBlurs has not
\* seen.
C34_DisabledPassAppliesNothing ==
    [][/\ lastOp'.name \in {"initAfterSettings", "delayedRestoration"}
       /\ ~isEnabled'
       => /\ blurredNodes' \subseteq blurredNodes
          /\ areaEls' = areaEls
          /\ textSpans' \subseteq textSpans]_vars

\* The step is a gesture or the context-menu message.
IsGestureStep ==
    lastOp'.name \in {"handleClick", "handleMouseDown", "handleMouseUp",
                      "handleTextSelection", "handleKeyDown", "blurSelectedText"}

\* C35: while the extension is disabled, a click, a draw gesture, a text
\* selection, a keyboard shortcut or the blurSelectedText message leaves the
\* Mark Store and the effects in the document as they were.
C35_DisabledGestureChangesNothing ==
    [][~isEnabled /\ IsGestureStep
          => /\ blurredElements' = blurredElements
             /\ blurredNodes' = blurredNodes
             /\ areaEls' = areaEls
             /\ textSpans' = textSpans]_vars

\* C36: the document holds at most one draw preview overlay, and none
\* while no draw is in progress (startCoords is null).
C36_OnePreviewWhileDrawing ==
    /\ previewsInDocument <= 1
    /\ startCoords = <<>> => previewsInDocument = 0

\* C37: when the background worker completes a saveBlurData request, the
\* extension store holds the request's marks for its identity and, for every
\* other identity, the marks it held before the write: a save for one page
\* does not undo a save for another page that completed meanwhile.
C37_ConcurrentSavesBothKept ==
    [][/\ lastOp'.name = "storage.sync.set"
       /\ lastOp'.arg.handler = "saveBlurData"
       => /\ extStore'[lastOp'.arg.target] = lastOp'.arg.blurData
          /\ \A url \in Urls \ {lastOp'.arg.target} :
                 extStore'[url] = extStore[url]]_vars

\* The step pushed a mark.
MarkCommitted == Len(blurredElements') = Len(blurredElements) + 1

\* The daily count stays within the free limit.
CountWithinLimit == blurCount <= MaxBlursPerDayFree

\* C38: for a free-tier user the daily count never exceeds maxBlursPerDay,
\* and every mark a gesture commits raises the count by exactly one.
C38_CountBoundedAndExact ==
    [][/\ CountWithinLimit'
       /\ MarkCommitted => blurCount' = blurCount + 1]_vars

====
